---- MODULE Spec2Model ----
(***************************************************************************)
(* fix-peer-deps: a model of the command line tool of src/fix-peer-deps    *)
(* (index.js, v1.1.12) and of its predecessors v1.1.7 (src/unnamed/        *)
(* part_001) and v1.1.0 (src/unnamed/part_002).                            *)
(*                                                                         *)
(* Strings are sequences of tokens (short strings): "@", "^", "~", "=",    *)
(* "v" and the quote are one-character tokens, so that split('@'), the     *)
(* regular expressions and the template literals of the code act on them   *)
(* as they act on characters.  The token set is prefix-free, so that the   *)
(* token-wise lexicographic order is the code-unit order of Array.sort().  *)
(***************************************************************************)
EXTENDS Integers, Sequences, FiniteSets, TLC

VARIABLES
    release,         \* which release of the tool runs: "1.1.12", "1.1.7" or "1.1.0"
    pc,              \* position of the control flow of main()
    argv,            \* the command line arguments (a set of flags)
    packageJson,     \* the manifest on disk (input)
    packageManager,  \* result of detectPackageManager
    result,          \* getDependencies: the catalog being built
    cursor,          \* processDeps: <<kind index, entry index>> of the next entry
    issues,          \* result of analyzePeerDependencies
    issueList,       \* v1.1.0: the issues of analyzePeerDependencies
    depsToInstall,   \* autoFix: the install specifiers
    chunkStart,      \* autoFix v1.1.0: loop variable i of the chunk loop
    execaCalls,      \* every command handed to execa, in order
    stdout,          \* lines written with console.log
    stderr,          \* lines written with console.error
    nodeModules,     \* v1.1.7: what analyzeDependencies found in node_modules
    cwd,             \* the working directory: its files, the packageManager
                     \* field of its package.json, the environment of the process
    verification,    \* autoFix: the outcome of the step "Verify installations"
    exitCode         \* -1 while running, then the exit code of the process

vars == <<release, pc, argv, cwd, packageJson, packageManager, result, cursor,
          issues, issueList, depsToInstall, chunkStart, execaCalls, stdout,
          stderr, nodeModules, verification, exitCode>>

(***************************************************************************)
(* Bounds of the model.                                                    *)
(***************************************************************************)
MaxDeclared == 2     \* declared entries of a manifest
MaxPeers == 2        \* entries of one peer-requirement map
MaxListed == 25      \* peers of the consumer of a v1.1.0 listing
MaxCallDeclared == 3 \* declared entries of a manifest handed to analyzeDependencies

(***************************************************************************)
(* Strings.                                                                *)
(***************************************************************************)
\* null / undefined where a string is expected
NULL == <<"<null>">>

\* the tokens in UTF-16 code unit order
TokenOrder ==
    <<" is installed", " requires ", "\"", "*", ", but ",
      "1.5.0", "2.0.0", "2.1.0", "2.5.0", "3.0.0",
      "=", ">=", "@", "^",
      "app", "babel/", "eslint/", "node", "react", "scope/ui",
      "supports-color", "types/", "v", "~">>

TokenRank(t) == CHOOSE i \in 1..Len(TokenOrder) : TokenOrder[i] = t

\* a < b for strings, as the default comparison of Array.prototype.sort
RECURSIVE StrLess(_, _)
StrLess(a, b) ==
    IF b = <<>> THEN FALSE
    ELSE IF a = <<>> THEN TRUE
    ELSE IF Head(a) = Head(b) THEN StrLess(Tail(a), Tail(b))
    ELSE TokenRank(Head(a)) < TokenRank(Head(b))

\* [...set].sort(): the strings of a set in ascending order
RECURSIVE SortStrings(_)
SortStrings(S) ==
    IF S = {} THEN <<>>
    ELSE LET m == CHOOSE x \in S : \A y \in S \ {x} : StrLess(x, y)
         IN <<m>> \o SortStrings(S \ {m})

Range(s) == {s[i] : i \in DOMAIN s}

\* index of the first token t of s at or after position i, 0 if none
RECURSIVE IndexFrom(_, _, _)
IndexFrom(s, t, i) ==
    IF i > Len(s) THEN 0
    ELSE IF s[i] = t THEN i
    ELSE IndexFrom(s, t, i + 1)

\* String.prototype.split(sep) for a one-character separator
RECURSIVE Split(_, _)
Split(s, sep) ==
    LET k == IndexFrom(s, sep, 1)
    IN IF k = 0 THEN <<s>>
       ELSE <<SubSeq(s, 1, k - 1)>> \o Split(SubSeq(s, k + 1, Len(s)), sep)

\* the template literal `${a}@${b}`
At(a, b) == a \o <<"@">> \o b

\* version.replace(/^\^|~/, ''): drops a leading "^", else the first "~"
StripRangePrefix(s) ==
    IF s # <<>> /\ s[1] = "^" THEN Tail(s)
    ELSE LET k == IndexFrom(s, "~", 1)
         IN IF k = 0 THEN s
            ELSE SubSeq(s, 1, k - 1) \o SubSeq(s, k + 1, Len(s))

(***************************************************************************)
(* The semver package, as far as the code uses it.                         *)
(***************************************************************************)
VersionTokens == {"1.5.0", "2.0.0", "2.1.0", "2.5.0", "3.0.0"}

\* major, minor, patch of a version token
SemVerOf(t) ==
    CASE t = "1.5.0" -> <<1, 5, 0>>
      [] t = "2.0.0" -> <<2, 0, 0>>
      [] t = "2.1.0" -> <<2, 1, 0>>
      [] t = "2.5.0" -> <<2, 5, 0>>
      [] t = "3.0.0" -> <<3, 0, 0>>

\* new SemVer(s): the parsed version, <<>> where the constructor throws
ParseVersion(s) ==
    IF Len(s) = 1 /\ s[1] \in VersionTokens THEN SemVerOf(s[1])
    ELSE IF Len(s) = 2 /\ s[1] = "v" /\ s[2] \in VersionTokens THEN SemVerOf(s[2])
    ELSE <<>>

VLess(x, y) ==
    \/ x[1] < y[1]
    \/ x[1] = y[1] /\ x[2] < y[2]
    \/ x[1] = y[1] /\ x[2] = y[2] /\ x[3] < y[3]

VGte(x, y) == ~VLess(x, y)

\* the exclusive upper end of ^b
CaretUpper(b) ==
    IF b[1] > 0 THEN <<b[1] + 1, 0, 0>>
    ELSE IF b[2] > 0 THEN <<0, b[2] + 1, 0>>
    ELSE <<0, 0, b[3] + 1>>

\* the exclusive upper end of ~b
TildeUpper(b) == <<b[1], b[2] + 1, 0>>

\* new Range(r): is r a range the package parses
ValidRange(r) ==
    \/ r = <<>>
    \/ r = <<"*">>
    \/ ParseVersion(r) # <<>>
    \/ /\ Len(r) >= 2
       /\ r[1] \in {"^", "~", ">=", "="}
       /\ ParseVersion(Tail(r)) # <<>>

\* range.test(x) for a parsed version x
RangeTest(r, x) ==
    IF r = <<>> \/ r = <<"*">> THEN TRUE
    ELSE IF ParseVersion(r) # <<>> THEN x = ParseVersion(r)
    ELSE LET b == ParseVersion(Tail(r))
         IN CASE r[1] = "^" -> VGte(x, b) /\ VLess(x, CaretUpper(b))
              [] r[1] = "~" -> VGte(x, b) /\ VLess(x, TildeUpper(b))
              [] r[1] = ">=" -> VGte(x, b)
              [] r[1] = "=" -> x = b

\* semver.satisfies(version, range): false for an invalid version or range
SemverSatisfies(version, range) ==
    /\ ValidRange(range)
    /\ ParseVersion(version) # <<>>
    /\ RangeTest(range, ParseVersion(version))

\* the leading run of "=" and "v" removed: replace(/^[=v]+/, '')
RECURSIVE StripEqV(_)
StripEqV(s) ==
    IF s # <<>> /\ s[1] \in {"=", "v"} THEN StripEqV(Tail(s)) ELSE s

\* semver.clean(version): the normalised version, NULL if it does not parse
SemverClean(version) ==
    LET s == StripEqV(version)
    IN IF ParseVersion(s) = <<>> THEN NULL ELSE s

(***************************************************************************)
(* Program constants.                                                      *)
(***************************************************************************)
\* does name match /^@<scope>\// for one of the scopes of IGNORE_PATTERNS
IGNORE_PATTERNS == {<<"@", "types/">>, <<"@", "babel/">>, <<"@", "eslint/">>}

MatchesIgnorePattern(name) ==
    \E p \in IGNORE_PATTERNS : Len(name) >= Len(p) /\ SubSeq(name, 1, Len(p)) = p

OPTIONAL_DEPS == {<<"supports-color">>, <<"encoding">>, <<"ts-node">>}

Managers == {"npm", "yarn", "pnpm", "bun"}

\* the keys of the catalog, in the order of the object literal
Kinds == <<"dependencies", "devDependencies", "peerDependencies">>

(***************************************************************************)
(* Inputs: the manifests and the peer metadata the runs are given.         *)
(***************************************************************************)
nApp == <<"app">>
nReact == <<"react">>
nScoped == <<"@", "scope/ui">>
nTypes == <<"@", "types/", "node">>
nOptional == <<"supports-color">>

\* the declarations a manifest is made of
DeclUniverse ==
    << [kind |-> "dependencies", name |-> nApp, spec |-> <<"^", "2.1.0">>],
       [kind |-> "devDependencies", name |-> nApp, spec |-> <<"1.5.0">>],
       [kind |-> "dependencies", name |-> nReact, spec |-> <<"^", "2.1.0">>],
       [kind |-> "dependencies", name |-> nReact, spec |-> <<"v", "2.1.0">>],
       [kind |-> "dependencies", name |-> nReact, spec |-> <<"^">>],
       [kind |-> "devDependencies", name |-> nReact, spec |-> <<"1.5.0">>],
       [kind |-> "peerDependencies", name |-> nReact, spec |-> <<">=", "2.1.0">>],
       [kind |-> "dependencies", name |-> nScoped, spec |-> <<"~", "2.1.0">>],
       [kind |-> "devDependencies", name |-> nOptional, spec |-> <<"2.1.0">>] >>

\* the peer requirements a peer map is made of
PeerReqUniverse ==
    << <<nReact, <<"^", "2.0.0">>>>,
       <<nReact, <<"^", "2.5.0">>>>,
       <<nApp, <<"^", "2.0.0">>>>,
       <<nScoped, <<"^", "2.0.0">>>>,
       <<nTypes, <<"^", "2.0.0">>>>,
       <<nOptional, <<"^", "2.0.0">>>> >>

\* the elements of seq at the indices of I, in ascending order of index
RECURSIVE Pick(_, _)
Pick(seq, I) ==
    IF I = {} THEN <<>>
    ELSE LET m == CHOOSE i \in I : \A j \in I : i <= j
         IN <<seq[m]>> \o Pick(seq, I \ {m})

\* sets of at most n declarations, no two for the same kind and name
DeclChoices(n) ==
    {I \in SUBSET (DOMAIN DeclUniverse) :
        /\ Cardinality(I) <= n
        /\ \A i, j \in I :
              i # j => \/ DeclUniverse[i].kind # DeclUniverse[j].kind
                       \/ DeclUniverse[i].name # DeclUniverse[j].name}

\* sets of at most n requirements, no two on the same peer
ReqChoices(n) ==
    {I \in SUBSET (DOMAIN PeerReqUniverse) :
        /\ Cardinality(I) <= n
        /\ \A i, j \in I : i # j => PeerReqUniverse[i][1] # PeerReqUniverse[j][1]}

\* the entries of one kind of a manifest, as Object.entries lists them
RECURSIVE EntriesOf(_, _)
EntriesOf(decls, kind) ==
    IF decls = <<>> THEN <<>>
    ELSE (IF Head(decls).kind = kind
          THEN << <<Head(decls).name, Head(decls).spec>> >> ELSE <<>>)
         \o EntriesOf(Tail(decls), kind)

ManifestOf(decls) ==
    [readable |-> TRUE,
     dependencies |-> EntriesOf(decls, "dependencies"),
     devDependencies |-> EntriesOf(decls, "devDependencies"),
     peerDependencies |-> EntriesOf(decls, "peerDependencies")]

Unreadable ==
    [readable |-> FALSE, dependencies |-> <<>>, devDependencies |-> <<>>,
     peerDependencies |-> <<>>]

Manifests ==
    {ManifestOf(Pick(DeclUniverse, I)) : I \in DeclChoices(MaxDeclared)}
    \cup {Unreadable}

\* the requirements the metadata source has for a package: a package does
\* not require itself, and react requires app or @scope/ui at most
KnownReqs(name) ==
    IF name = nApp THEN {i \in DOMAIN PeerReqUniverse : PeerReqUniverse[i][1] # nApp}
    ELSE IF name = nReact
    THEN {i \in DOMAIN PeerReqUniverse : PeerReqUniverse[i][1] \in {nApp, nScoped}}
    ELSE {}

\* the peer maps a metadata source answers with for a package
PeerMaps(name) ==
    {Pick(PeerReqUniverse, I) :
        I \in {J \in ReqChoices(MaxPeers) : J \subseteq KnownReqs(name)}}

\* what `yarn info <name> peerDependencies --json` can come to
FetchOutcomes(name) ==
    {[how |-> "throws", data |-> <<>>], [how |-> "nodata", data |-> <<>>]}
    \cup {[how |-> "data", data |-> m] : m \in PeerMaps(name) \ {<<>>}}

(***************************************************************************)
(* getDependencies (index.js).                                             *)
(***************************************************************************)
EmptyCatalog ==
    [dependencies |-> <<>>, devDependencies |-> <<>>, peerDependencies |-> <<>>]

\* the first entry at or after <<k, i>>; <<4, 1>> when none is left
RECURSIVE NextCursor(_, _, _)
NextCursor(manifest, k, i) ==
    IF k > Len(Kinds) THEN <<Len(Kinds) + 1, 1>>
    ELSE IF i <= Len(manifest[Kinds[k]]) THEN <<k, i>>
    ELSE NextCursor(manifest, k + 1, 1)

\* result[type][name] = { version: version.replace(/^\^|~/, '') }, and the
\* peerDependencies property when yarn info answered with data
CatalogEntry(name, spec, outcome) ==
    [name |-> name,
     version |-> StripRangePrefix(spec),
     hasPeers |-> outcome.how = "data",
     peerDependencies |-> outcome.data]

NoFetch == [how |-> "none", data |-> <<>>]

(***************************************************************************)
(* analyzePeerDependencies (index.js).                                     *)
(***************************************************************************)
\* is the string truthy
Truthy(s) == s # NULL /\ s # <<>>

FindIn(entries, name) == {i \in DOMAIN entries : entries[i].name = name}

\* findInstalledVersion: the version of the first kind that declares name
RECURSIVE FindFrom(_, _, _)
FindFrom(dependencies, name, k) ==
    IF k > Len(Kinds) THEN NULL
    ELSE LET hit == FindIn(dependencies[Kinds[k]], name)
         IN IF hit # {}
            THEN dependencies[Kinds[k]][CHOOSE i \in hit : TRUE].version
            ELSE FindFrom(dependencies, name, k + 1)

findInstalledVersion(dependencies, name) == FindFrom(dependencies, name, 1)

\* checkVersion with the arguments of semver.satisfies in the wrong order
checkVersionSwapped(name, required, installed) ==
    LET cleaned == SemverClean(installed)
        cleanInstalled == IF Truthy(cleaned) THEN cleaned ELSE installed
    IN SemverSatisfies(required, cleanInstalled)

\* checkVersion: semver.satisfies(semver.clean(installed) || installed, required)
checkVersion(name, required, installed) ==
    LET cleaned == SemverClean(installed)
        cleanInstalled == IF Truthy(cleaned) THEN cleaned ELSE installed
    IN SemverSatisfies(cleanInstalled, required)

\* `${name} requires ${peerName}@${requiredVersion}, but ${installedVersion} is installed`
ConflictMessage(name, peerName, requiredVersion, installedVersion) ==
    name \o <<" requires ">> \o At(peerName, requiredVersion)
         \o <<", but ">> \o installedVersion \o <<" is installed">>

\* the concatenation of the lists of a list
RECURSIVE Flatten(_)
Flatten(lists) == IF lists = <<>> THEN <<>> ELSE Head(lists) \o Flatten(Tail(lists))

\* Set.prototype.add for each item in turn: a set keeps its insertion order
RECURSIVE AddToSet(_, _)
AddToSet(set, items) ==
    IF items = <<>> THEN set
    ELSE AddToSet(IF Head(items) \in Range(set) THEN set ELSE Append(set, Head(items)),
                  Tail(items))

\* the <<kind, index>> of the first catalog entry of a package, <<>> if none
RECURSIVE EntryOf(_, _, _)
EntryOf(dependencies, name, k) ==
    IF k > Len(Kinds) THEN <<>>
    ELSE LET hit == FindIn(dependencies[Kinds[k]], name)
         IN IF hit # {} THEN <<k, CHOOSE i \in hit : \A j \in hit : i <= j>>
            ELSE EntryOf(dependencies, name, k + 1)

\* the loops of lines 180-181 as a walk that enters the catalog entry of
\* every peer of the entry it visits
RECURSIVE VisitsFollowingPeersFrom(_, _, _)
VisitsFollowingPeersFrom(dependencies, k, i) ==
    IF k > Len(Kinds) THEN <<>>
    ELSE IF i > Len(dependencies[Kinds[k]]) THEN VisitsFollowingPeersFrom(dependencies, k + 1, 1)
    ELSE LET e == dependencies[Kinds[k]][i]
             InCatalog(req) == EntryOf(dependencies, req[1], 1) # <<>>
             peers == SelectSeq(e.peerDependencies, InCatalog)
         IN << <<k, i>> >>
            \o [j \in DOMAIN peers |-> EntryOf(dependencies, peers[j][1], 1)]
            \o VisitsFollowingPeersFrom(dependencies, k, i + 1)

VisitsFollowingPeers(dependencies) == VisitsFollowingPeersFrom(dependencies, 1, 1)

\* lines 180-181: the <<kind, index>> of the entries the two loops visit
\* from <<k, i>> on, in order
RECURSIVE VisitsFrom(_, _, _)
VisitsFrom(dependencies, k, i) ==
    IF k > Len(Kinds) THEN <<>>
    ELSE IF i > Len(dependencies[Kinds[k]]) THEN VisitsFrom(dependencies, k + 1, 1)
    ELSE << <<k, i>> >> \o VisitsFrom(dependencies, k, i + 1)

\* lines 180-200: every entry the analysis visits, in order
Visits(dependencies) == VisitsFrom(dependencies, 1, 1)

\* the catalog entries that carry a peerDependencies property
Consumers(dependencies) ==
    {e \in UNION {Range(dependencies[Kinds[k]]) : k \in DOMAIN Kinds} : e.hasPeers}

\* every <<consumer, peer, required>> the loops of lines 180-187 visit
Requirements(dependencies) ==
    UNION {{<<e.name, e.peerDependencies[j][1], e.peerDependencies[j][2]>> :
               j \in DOMAIN e.peerDependencies} : e \in Consumers(dependencies)}

\* the test of line 190 written as installedVersion === ''
IsMissingEmptyOnly(dependencies, req) ==
    findInstalledVersion(dependencies, req[2]) = <<>>

\* lines 188-196 with two separate tests instead of if / else if: an
\* unsatisfied requirement is added to missingDeps as well
IsMissingOrUnsatisfied(dependencies, req) ==
    LET installedVersion == findInstalledVersion(dependencies, req[2])
    IN \/ ~Truthy(installedVersion)
       \/ ~checkVersion(req[2], req[3], installedVersion)

\* lines 188-191: the requirement is added to missingDeps
IsMissing(dependencies, req) ==
    ~Truthy(findInstalledVersion(dependencies, req[2]))

\* lines 192-196: the requirement is added to versionConflicts
IsConflict(dependencies, req) ==
    LET installedVersion == findInstalledVersion(dependencies, req[2])
    IN /\ Truthy(installedVersion)
       /\ ~checkVersion(req[2], req[3], installedVersion)

\* every <<consumer, peer, required>> in the order the loops of lines
\* 180-187 come to it
RequirementsInOrder(dependencies) ==
    LET visits == Visits(dependencies)
        PeersAt(v) ==
            LET e == dependencies[Kinds[v[1]]][v[2]]
            IN IF e.hasPeers
               THEN [j \in DOMAIN e.peerDependencies |->
                        <<e.name, e.peerDependencies[j][1], e.peerDependencies[j][2]>>]
               ELSE <<>>
    IN Flatten([n \in DOMAIN visits |-> PeersAt(visits[n])])

\* analyzePeerDependencies returning [...missingDeps] and [...versionConflicts]
\* as the Sets hold them, without the sort() of lines 204-205
AnalyzeUnsorted(dependencies) ==
    LET reqs == RequirementsInOrder(dependencies)
        Missing(q) == IsMissing(dependencies, q)
        Conflict(q) == IsConflict(dependencies, q)
        missing == SelectSeq(reqs, Missing)
        conflicts == SelectSeq(reqs, Conflict)
        missingDeps == AddToSet(<<>>, [i \in DOMAIN missing |->
                                         At(missing[i][2], missing[i][3])])
        versionConflicts ==
            AddToSet(<<>>, [i \in DOMAIN conflicts |->
                ConflictMessage(conflicts[i][1], conflicts[i][2], conflicts[i][3],
                                findInstalledVersion(dependencies, conflicts[i][2]))])
    IN [missingDeps |-> missingDeps,
        versionConflicts |-> versionConflicts,
        hasIssues |-> missingDeps # <<>> \/ versionConflicts # <<>>]

\* the value analyzePeerDependencies returns
Analyze(dependencies) ==
    LET reqs == Requirements(dependencies)
        missingDeps == {At(r[2], r[3]) : r \in {q \in reqs : IsMissing(dependencies, q)}}
        versionConflicts ==
            {ConflictMessage(r[1], r[2], r[3], findInstalledVersion(dependencies, r[2])) :
                r \in {q \in reqs : IsConflict(dependencies, q)}}
    IN [missingDeps |-> SortStrings(missingDeps),
        versionConflicts |-> SortStrings(versionConflicts),
        hasIssues |-> missingDeps # {} \/ versionConflicts # {}]

\* the lines a list is printed as, each behind "- "
Bulleted(list) == [i \in DOMAIN list |-> <<"- ">> \o list[i]]

\* lines 207-215: what the analysis itself prints
AnalysisOutput(found) ==
    (IF found.missingDeps # <<>>
     THEN << <<"Missing peer dependencies:">> >> \o Bulleted(found.missingDeps)
     ELSE <<>>)
    \o (IF found.versionConflicts # <<>>
        THEN << <<"Version conflicts:">> >> \o Bulleted(found.versionConflicts)
        ELSE <<>>)

(***************************************************************************)
(* Reporting and fixing (index.js).                                        *)
(***************************************************************************)
\* formatDependencyTree: the heading and one line per string of deps
formatDependencyTree(deps) ==
    IF deps = <<>> THEN << <<>> >>
    ELSE << <<"Missing peer dependencies:">> >> \o Bulleted(deps)

\* const [name, version] = dep.split('@'): the second piece, NULL when there is none
SecondPiece(dep) ==
    LET pieces == Split(dep, "@") IN IF Len(pieces) >= 2 THEN pieces[2] ELSE NULL

FirstPiece(dep) == Split(dep, "@")[1]

\* the install verb of the manager: a string
InstallCommand(manager) ==
    CASE manager = "npm" -> "npm install"
      [] manager = "yarn" -> "yarn add"
      [] manager = "pnpm" -> "pnpm add"
      [] manager = "bun" -> "bun add"
      [] OTHER -> "npm install"

\* lines 414-422: version ? `${name}@"${version}"` : name
SuggestedSpecifier(dep) ==
    IF Truthy(SecondPiece(dep))
    THEN FirstPiece(dep) \o <<"@", "\"">> \o SecondPiece(dep) \o <<"\"">>
    ELSE FirstPiece(dep)

\* .filter(Boolean): the empty strings dropped
RECURSIVE FilterBoolean(_)
FilterBoolean(list) ==
    IF list = <<>> THEN <<>>
    ELSE (IF Head(list) = <<>> THEN <<>> ELSE <<Head(list)>>) \o FilterBoolean(Tail(list))

\* ` ${a} ${b}...`: the arguments behind the command, a blank before each
RECURSIVE JoinArgs(_)
JoinArgs(list) ==
    IF list = <<>> THEN <<>> ELSE <<" ">> \o Head(list) \o JoinArgs(Tail(list))

\* formatSuggestedActions: the heading and the command line, arguments in order
formatSuggestedActions(deps, manager) ==
    LET specs == FilterBoolean([i \in DOMAIN deps |-> SuggestedSpecifier(deps[i])])
    IN IF deps = <<>> \/ specs = <<>> THEN << <<>> >>
       ELSE << <<"Suggested fix:">>, <<InstallCommand(manager)>> \o JoinArgs(specs) >>

\* lines 319-327: version ? `${name}@${version}` : name
FixSpecifier(dep) ==
    IF Truthy(SecondPiece(dep)) THEN At(FirstPiece(dep), SecondPiece(dep))
    ELSE FirstPiece(dep)

DepsToInstall(missingDeps) ==
    FilterBoolean([i \in DOMAIN missingDeps |-> FixSpecifier(missingDeps[i])])

(***************************************************************************)
(* analyzeDependencies of v1.1.7 (src/unnamed/part_001).                   *)
(***************************************************************************)
\* `${version}` when version is an object, as for the entries of a catalog
ObjectString == <<"[object Object]">>

\* semver.coerce(version): the first version found in the string, NULL if none
RECURSIVE SemverCoerce(_)
SemverCoerce(version) ==
    IF version = NULL \/ version = <<>> THEN NULL
    ELSE IF Head(version) \in VersionTokens THEN <<Head(version)>>
    ELSE SemverCoerce(Tail(version))

\* semver.valid(version): the version without its "v", NULL if it does not parse
SemverValid(version) ==
    IF ParseVersion(version) = <<>> THEN NULL ELSE <<version[Len(version)]>>

\* addDependencies: `${name}@${version}` of every entry is added to deps
addDependencies(deps, dependencies) ==
    AddToSet(deps, [i \in DOMAIN dependencies |->
                       At(dependencies[i][1], dependencies[i][2])])

\* what main hands to analyzeDependencies as packageJson: the catalog, whose
\* dependencies map names to entry objects and which has no other kind
CatalogAsPackageJson(catalog) ==
    [dependencies |-> [i \in DOMAIN catalog.dependencies |->
                          <<catalog.dependencies[i].name, ObjectString>>],
     devDependencies |-> <<>>,
     peerDependencies |-> <<>>]

\* no node_modules/<name>/package.json: readFile fails with ENOENT
NotInstalled == [how |-> "ENOENT", peerDependencies |-> <<>>]

\* an installed package.json with the peer map m
Installed(m) == [how |-> "read", peerDependencies |-> m]

\* before analyzeDependencies has run
NoNodeModules ==
    [dir |-> "unread", installOk |-> TRUE, app |-> NotInstalled, react |-> NotInstalled]

\* the package.json found at `${nodeModulesPath}/${name}/package.json`
PackageJsonIn(modules, name) ==
    IF name = nApp THEN modules.app
    ELSE IF name = nReact THEN modules.react
    ELSE NotInstalled

\* Array.from(deps).find(d => d.split('@')[0] === peerName): its index, 0 if none
RECURSIVE InstalledPeerDep(_, _, _)
InstalledPeerDep(deps, peerName, i) ==
    IF i > Len(deps) THEN 0
    ELSE IF FirstPiece(deps[i]) = peerName THEN i
    ELSE InstalledPeerDep(deps, peerName, i + 1)

NoFinding ==
    [type |-> "none", dep |-> <<>>, package |-> <<>>, peer |-> <<>>,
     required |-> <<>>, installed |-> <<>>]

\* lines 144-147: both versions coerce and the installed one does not satisfy
V117IsConflict(installedVersion, requiredVersion) ==
    LET cleanInstalled == SemverValid(SemverCoerce(installedVersion))
        cleanRequired == SemverValid(SemverCoerce(requiredVersion))
    IN /\ Truthy(cleanInstalled)
       /\ Truthy(cleanRequired)
       /\ ~SemverSatisfies(cleanInstalled, requiredVersion)

\* lines 134-155: what one peer requirement of the package `name` adds
V117Finding(deps, name, req) ==
    LET k == InstalledPeerDep(deps, req[1], 1)
    IN IF k = 0
       THEN [NoFinding EXCEPT !.type = "missing", !.dep = At(req[1], req[2])]
       ELSE IF V117IsConflict(SecondPiece(deps[k]), req[2])
       THEN [NoFinding EXCEPT !.type = "conflict", !.package = name, !.peer = req[1],
                              !.required = req[2], !.installed = SecondPiece(deps[k])]
       ELSE NoFinding

\* lines 127-163: the findings of the deps from the i-th on, in order
RECURSIVE V117FindingsFrom(_, _, _)
V117FindingsFrom(deps, modules, i) ==
    IF i > Len(deps) THEN <<>>
    ELSE LET name == FirstPiece(deps[i])
             depPackageJson == PackageJsonIn(modules, name)
         IN (IF depPackageJson.how = "read"
             THEN [j \in DOMAIN depPackageJson.peerDependencies |->
                      V117Finding(deps, name, depPackageJson.peerDependencies[j])]
             ELSE <<>>)
            \o V117FindingsFrom(deps, modules, i + 1)

\* Array.from(versionConflicts): the Set holds objects, each add a new one
V117Conflicts(found) ==
    LET IsConflictFinding(f) == f.type = "conflict"
        conflicts == SelectSeq(found, IsConflictFinding)
    IN [i \in DOMAIN conflicts |->
           [package |-> conflicts[i].package, peer |-> conflicts[i].peer,
            required |-> conflicts[i].required, installed |-> conflicts[i].installed]]

\* Array.from(missingPeerDeps): a Set of strings
V117Missing(found) ==
    LET IsMissingFinding(f) == f.type = "missing"
        missing == SelectSeq(found, IsMissingFinding)
    IN AddToSet(<<>>, [i \in DOMAIN missing |-> missing[i].dep])

\* analyzeDependencies(packageJson): lines 92-169
analyzeDependencies(manifest, modules) ==
    LET deps == addDependencies(
                    addDependencies(
                        addDependencies(<<>>, manifest.dependencies),
                        manifest.devDependencies),
                    manifest.peerDependencies)
        found == V117FindingsFrom(deps, modules, 1)
    IN IF modules.dir = "ENOENT" /\ ~modules.installOk
       THEN [missingPeerDeps |-> <<>>, versionConflicts |-> <<>>]
       ELSE [missingPeerDeps |-> V117Missing(found),
             versionConflicts |-> V117Conflicts(found)]

(***************************************************************************)
(* detectPackageManager of the three releases.                             *)
(***************************************************************************)
\* the names of the files detectPackageManager looks for
File ==
    [yarnDir |-> <<".", "yarn">>,
     yarnLock |-> <<"yarn", ".", "lock">>,
     packageLock |-> <<"package-lock", ".", "json">>,
     pnpmLock |-> <<"pnpm-lock", ".", "yaml">>,
     bunLock |-> <<"bun", ".", "lockb">>]

\* the values of the packageManager field of package.json, NULL without one
Fields ==
    {NULL, <<"npm", "@", "2.0.0">>, <<"yarn", "@", "2.0.0">>, <<"pnpm", "@", "2.0.0">>,
     <<"bun", "@", "2.0.0">>, <<"deno", "@", "2.0.0">>}

\* the values of process.env.npm_execpath, NULL when it is not set
ExecPaths ==
    {NULL} \cup {<<"/usr/lib/node_modules/", m, "/bin/cli.js">> : m \in Managers}

\* a working directory and the environment of the process
Directory(files, field, execpath) ==
    [files |-> files, packageManager |-> field, npm_execpath |-> execpath]

\* the string a token sequence stands for
RECURSIVE Joined(_)
Joined(s) == IF s = <<>> THEN "" ELSE Head(s) \o Joined(Tail(s))

\* the branch on process.env.npm_execpath, then the default; includes(word)
\* finds a word that is a token of the path
FromEnvironment(dir) ==
    IF Truthy(dir.npm_execpath)
    THEN IF "yarn" \in Range(dir.npm_execpath) THEN "yarn"
         ELSE IF "pnpm" \in Range(dir.npm_execpath) THEN "pnpm"
         ELSE IF "bun" \in Range(dir.npm_execpath) THEN "bun"
         ELSE "npm"
    ELSE "npm"

\* the four tests files.includes(<lock file>), "" when none is there
FromLockFiles(dir) ==
    IF File.yarnLock \in dir.files THEN "yarn"
    ELSE IF File.packageLock \in dir.files THEN "npm"
    ELSE IF File.pnpmLock \in dir.files THEN "pnpm"
    ELSE IF File.bunLock \in dir.files THEN "bun"
    ELSE ""

\* packageJson.packageManager.split('@')[0] when it is one of the four
\* managers, "" without a readable manifest, a field or a known name
FromField(dir, manifest) ==
    IF manifest.readable /\ Truthy(dir.packageManager)
       /\ Joined(FirstPiece(dir.packageManager)) \in Managers
    THEN Joined(FirstPiece(dir.packageManager))
    ELSE ""

\* index.js lines 58-95: the field, the .yarn directory, the lock files, the
\* environment, npm
detectPackageManager(dir, manifest) ==
    IF FromField(dir, manifest) # "" THEN FromField(dir, manifest)
    ELSE IF File.yarnDir \in dir.files THEN "yarn"
    ELSE IF FromLockFiles(dir) # "" THEN FromLockFiles(dir)
    ELSE FromEnvironment(dir)

\* part_001 lines 58-90: the lock files, the field, the environment, npm
V117detectPackageManager(dir, manifest) ==
    IF FromLockFiles(dir) # "" THEN FromLockFiles(dir)
    ELSE IF FromField(dir, manifest) # "" THEN FromField(dir, manifest)
    ELSE FromEnvironment(dir)

\* part_002 line 47: the lock files in the order they are tried
V110LockFiles == <<File.yarnLock, File.packageLock, File.pnpmLock, File.bunLock>>

\* part_002 lines 62-70: file.split('.')[0] of the first lock file that
\* can be read, "" when there is none
RECURSIVE V110FromLockFiles(_, _)
V110FromLockFiles(dir, k) ==
    IF k > Len(V110LockFiles) THEN ""
    ELSE IF V110LockFiles[k] \in dir.files THEN Joined(Split(V110LockFiles[k], ".")[1])
    ELSE V110FromLockFiles(dir, k + 1)

\* part_002 lines 45-74, for a manifest that can be read: the name in the
\* field whatever it is, the lock files, npm
V110detectPackageManager(dir) ==
    IF Truthy(dir.packageManager) THEN Joined(FirstPiece(dir.packageManager))
    ELSE IF V110FromLockFiles(dir, 1) # "" THEN V110FromLockFiles(dir, 1)
    ELSE "npm"

\* the directories the runs are started in: one without any hint, one per
\* lock file, one with a packageManager field
RunDirectories ==
    {Directory({}, NULL, NULL),
     Directory({File.yarnLock}, NULL, NULL),
     Directory({File.packageLock}, NULL, NULL),
     Directory({File.pnpmLock}, NULL, NULL),
     Directory({File.bunLock}, NULL, NULL),
     Directory({}, <<"pnpm", "@", "2.0.0">>, NULL)}

\* every directory and environment detectPackageManager can be called in
Directories ==
    {Directory(f, p, e) :
        f \in SUBSET {File.yarnDir, File.yarnLock, File.packageLock, File.pnpmLock, File.bunLock},
        p \in Fields, e \in ExecPaths}

(***************************************************************************)
(* The run of index.js (v1.1.12).                                          *)
(***************************************************************************)
\* the manifests the runs of v1.1.7 are given: getDependencies reads the
\* kind "dependencies" only, one declaration of another kind shows it
V117Declarations == {1, 3, 5, 6, 8}

V117Manifests ==
    {ManifestOf(Pick(DeclUniverse, I)) :
        I \in {J \in DeclChoices(MaxDeclared) : J \subseteq V117Declarations}}
    \cup {Unreadable}

NoIssues == [missingDeps |-> <<>>, versionConflicts |-> <<>>, hasIssues |-> FALSE]

\* before the step "Verify installations" has run
NotVerified == [state |-> "none", listed |-> {}, missingDeps |-> <<>>]

Init ==
    /\ release \in {"1.1.12", "1.1.7", "1.1.0"}
    /\ pc = "start"
    /\ argv \in {{}, {"--fix"}, {"--help"}}
    /\ cwd \in RunDirectories
    \* v1.1.0 reads the manifest for the packageManager field only
    /\ packageJson \in IF release = "1.1.12" THEN Manifests
                       ELSE IF release = "1.1.7" THEN V117Manifests
                       ELSE {ManifestOf(<<>>), Unreadable}
    /\ packageManager = "none"
    /\ result = EmptyCatalog
    /\ cursor = <<1, 1>>
    /\ issues = NoIssues
    /\ issueList = <<>>
    /\ depsToInstall = <<>>
    /\ chunkStart = 0
    /\ execaCalls = <<>>
    /\ stdout = <<>>
    /\ stderr = <<>>
    /\ nodeModules = NoNodeModules
    /\ verification = NotVerified
    /\ exitCode = -1

\* console.error(`Error: ${error.message}`)
ErrorLine(message) == <<"Error: ", message>>

\* process.exit(code), or the end of main(): the process is over
Exit(code) == pc' = "done" /\ exitCode' = code

\* lines 46-56: --help and --version are answered before anything else
ShowHelp ==
    /\ release = "1.1.12" /\ pc = "start"
    /\ argv \cap {"--help", "-h", "--version", "-v"} # {}
    /\ stdout' = Append(stdout, <<"HELP_TEXT">>)
    /\ Exit(0)
    /\ UNCHANGED <<nodeModules, verification>>
    /\ UNCHANGED <<stderr, cwd, release, argv, packageJson, packageManager, result, cursor, issues,
                   issueList, depsToInstall, chunkStart, execaCalls>>

\* line 451: the package manager is detected
DetectPackageManager ==
    /\ release = "1.1.12" /\ pc = "start"
    /\ argv \cap {"--help", "-h", "--version", "-v"} = {}
    /\ packageManager' = detectPackageManager(cwd, packageJson)
    /\ pc' = "getDependencies"
    /\ UNCHANGED <<nodeModules, verification>>
    /\ UNCHANGED <<stderr, cwd, release, argv, packageJson, result, cursor, issues, issueList,
                   depsToInstall, chunkStart, execaCalls, stdout, exitCode>>

\* ReadManifest taking a manifest that cannot be read for an empty one
ReadManifestLenient ==
    /\ release = "1.1.12" /\ pc = "getDependencies"
    /\ cursor' = NextCursor(packageJson, 1, 1)
    /\ pc' = IF cursor'[1] > Len(Kinds) THEN "analyze" ELSE "processDeps"
    /\ result' = EmptyCatalog
    /\ UNCHANGED <<nodeModules, verification, exitCode>>
    /\ UNCHANGED <<stderr, cwd, release, argv, packageJson, packageManager, issues, issueList,
                   depsToInstall, chunkStart, execaCalls, stdout>>

\* lines 100-109: the manifest is read; a failure is thrown to main's catch
ReadManifest ==
    /\ release = "1.1.12" /\ pc = "getDependencies"
    /\ IF packageJson.readable
       THEN /\ cursor' = NextCursor(packageJson, 1, 1)
            /\ pc' = IF cursor'[1] > Len(Kinds) THEN "analyze" ELSE "processDeps"
            /\ UNCHANGED <<stderr, exitCode>>
       ELSE /\ stderr' = Append(stderr, ErrorLine("cannot read package.json"))
            /\ Exit(1)
            /\ UNCHANGED cursor
    /\ result' = EmptyCatalog
    /\ UNCHANGED <<nodeModules, verification>>
    /\ UNCHANGED <<cwd, release, argv, packageJson, packageManager, issues, issueList,
                   depsToInstall, chunkStart, execaCalls, stdout>>

\* ProcessDep without the try/catch of lines 118-126: an error of yarn info
\* is thrown to main's catch
ProcessDepFetchFatal ==
    /\ release = "1.1.12" /\ pc = "processDeps"
    /\ LET kind == Kinds[cursor[1]]
           entry == packageJson[kind][cursor[2]]
       IN IF packageManager = "yarn"
          THEN \E outcome \in FetchOutcomes(entry[1]) :
                 /\ execaCalls' = Append(execaCalls,
                        [cmd |-> "yarn",
                         args |-> << <<"info">>, entry[1], <<"peerDependencies">>,
                                     <<"--json">> >>,
                         ok |-> outcome.how # "throws"])
                 /\ IF outcome.how = "throws"
                    THEN /\ stderr' = Append(stderr, ErrorLine("yarn info failed"))
                         /\ Exit(1) /\ UNCHANGED <<result, cursor>>
                    ELSE /\ result' = [result EXCEPT ![kind] =
                                  Append(@, CatalogEntry(entry[1], entry[2], outcome))]
                         /\ cursor' = NextCursor(packageJson, cursor[1], cursor[2] + 1)
                         /\ pc' = IF cursor'[1] > Len(Kinds) THEN "analyze"
                                  ELSE "processDeps"
                         /\ UNCHANGED <<stderr, exitCode>>
          ELSE /\ result' = [result EXCEPT ![kind] =
                                  Append(@, CatalogEntry(entry[1], entry[2], NoFetch))]
               /\ cursor' = NextCursor(packageJson, cursor[1], cursor[2] + 1)
               /\ pc' = IF cursor'[1] > Len(Kinds) THEN "analyze" ELSE "processDeps"
               /\ UNCHANGED <<execaCalls, stderr, exitCode>>
    /\ UNCHANGED <<nodeModules, verification>>
    /\ UNCHANGED <<cwd, release, argv, packageJson, packageManager, issues, issueList,
                   depsToInstall, chunkStart, stdout>>

\* lines 114-128: one iteration of processDeps; only yarn is asked for peers
ProcessDep ==
    /\ release = "1.1.12" /\ pc = "processDeps"
    /\ LET kind == Kinds[cursor[1]]
           entry == packageJson[kind][cursor[2]]
       IN /\ IF packageManager = "yarn"
             THEN \E outcome \in FetchOutcomes(entry[1]) :
                    /\ result' = [result EXCEPT ![kind] =
                                     Append(@, CatalogEntry(entry[1], entry[2], outcome))]
                    /\ execaCalls' = Append(execaCalls,
                           [cmd |-> "yarn",
                            args |-> << <<"info">>, entry[1], <<"peerDependencies">>,
                                        <<"--json">> >>,
                            ok |-> outcome.how # "throws"])
             ELSE /\ result' = [result EXCEPT ![kind] =
                                     Append(@, CatalogEntry(entry[1], entry[2], NoFetch))]
                  /\ UNCHANGED execaCalls
          /\ cursor' = NextCursor(packageJson, cursor[1], cursor[2] + 1)
          /\ pc' = IF cursor'[1] > Len(Kinds) THEN "analyze" ELSE "processDeps"
    /\ UNCHANGED <<nodeModules, verification>>
    /\ UNCHANGED <<stderr, cwd, release, argv, packageJson, packageManager, issues, issueList,
                   depsToInstall, chunkStart, stdout, exitCode>>

\* AnalyzePeerDependencies started without waiting for getDependencies: the
\* analysis may run on the catalog as far as processDeps has filled it
AnalyzePeerDependenciesUnawaited ==
    /\ release = "1.1.12" /\ pc \in {"processDeps", "analyze"}
    /\ issues' = Analyze(result)
    /\ stdout' = stdout \o AnalysisOutput(issues')
    /\ pc' = IF "--fix" \in argv THEN "autoFix" ELSE "report"
    /\ UNCHANGED <<nodeModules, verification>>
    /\ UNCHANGED <<stderr, cwd, release, argv, packageJson, packageManager, result, cursor, issueList,
                   depsToInstall, chunkStart, execaCalls, exitCode>>

\* lines 468-477: the analysis, then the branch on --fix
AnalyzePeerDependencies ==
    /\ release = "1.1.12" /\ pc = "analyze"
    /\ issues' = Analyze(result)
    /\ stdout' = stdout \o AnalysisOutput(issues')
    /\ pc' = IF "--fix" \in argv THEN "autoFix" ELSE "report"
    /\ UNCHANGED <<nodeModules, verification>>
    /\ UNCHANGED <<stderr, cwd, release, argv, packageJson, packageManager, result, cursor, issueList,
                   depsToInstall, chunkStart, execaCalls, exitCode>>

\* lines 477-484: analyze mode prints the issues and main returns
Report ==
    /\ release = "1.1.12" /\ pc = "report"
    /\ stdout' =
         IF issues.missingDeps # <<>> \/ issues.versionConflicts # <<>>
         THEN stdout \o formatDependencyTree(issues.missingDeps)
                     \o formatDependencyTree(issues.versionConflicts)
                     \o formatSuggestedActions(issues.missingDeps, packageManager)
                     \o formatSuggestedActions(issues.versionConflicts, packageManager)
         ELSE Append(stdout, <<"No peer dependency issues found!">>)
    /\ Exit(0)
    /\ UNCHANGED <<nodeModules, verification>>
    /\ UNCHANGED <<stderr, cwd, release, argv, packageJson, packageManager, result, cursor, issues,
                   issueList, depsToInstall, chunkStart, execaCalls>>

\* lines 307-332: nothing to fix, or the specifiers are formed
AutoFix ==
    /\ release = "1.1.12" /\ pc = "autoFix"
    /\ IF issues.missingDeps = <<>>
       THEN /\ stdout' = Append(stdout, <<"No issues to fix!">>)
            /\ Exit(0)
            /\ UNCHANGED depsToInstall
       ELSE /\ depsToInstall' = DepsToInstall(issues.missingDeps)
            /\ IF depsToInstall' = <<>>
               THEN Exit(0)
               ELSE pc' = "install" /\ UNCHANGED exitCode
            /\ UNCHANGED stdout
    /\ UNCHANGED <<nodeModules, verification>>
    /\ UNCHANGED <<stderr, cwd, release, argv, packageJson, packageManager, result, cursor, issues,
                   issueList, chunkStart, execaCalls>>

\* lines 335-348: command is a string, so command.args is undefined and the
\* spread [...command.args, ...depsToInstall] throws before execa is called;
\* the catch of line 347 takes it for a failed install
InstallAttempt ==
    /\ release = "1.1.12" /\ pc = "install"
    /\ pc' = "retry"
    /\ UNCHANGED <<nodeModules, verification>>
    /\ UNCHANGED <<stderr, cwd, release, argv, packageJson, packageManager, result, cursor, issues,
                   issueList, depsToInstall, chunkStart, execaCalls, stdout, exitCode>>

\* lines 349-357 and 386-393: command.args.filter throws as well, the error
\* is rethrown to the outer catch and the process exits with code 1
InstallRetry ==
    /\ release = "1.1.12" /\ pc = "retry"
    /\ stderr' = Append(stderr, ErrorLine("command.args is undefined"))
    /\ Exit(1)
    /\ UNCHANGED <<nodeModules, verification>>
    /\ UNCHANGED <<cwd, release, argv, packageJson, packageManager, result, cursor, issues,
                   issueList, depsToInstall, chunkStart, execaCalls, stdout>>

(***************************************************************************)
(* The run of v1.1.0 (src/unnamed/part_002).                               *)
(***************************************************************************)
chunkSize == 10

\* a listing entry of `<manager> list --json --depth=0`
Listed(name, version, peers) ==
    [name |-> name, version |-> version, hasPeers |-> peers # <<>>,
     peerDependencies |-> peers]

\* the k-th of the many peers of a listing
ManyPeer(k) == <<"pkg-", ToString(k)>>

ManyPeersListing(n) ==
    << Listed(nApp, <<"2.1.0">>, [k \in 1..n |-> <<ManyPeer(k), <<"^", "2.0.0">>>>]) >>

\* the listings the runs of v1.1.0 are given
Listings ==
    {ManyPeersListing(n) : n \in 0..MaxListed}
    \cup {<<Listed(nApp, <<"2.1.0">>, m)>> : m \in PeerMaps(nApp)}
    \cup {<<Listed(nApp, <<"2.1.0">>, m), Listed(nReact, v, <<>>)>> :
             m \in PeerMaps(nApp), v \in {<<"2.1.0">>, <<"1.5.0">>}}
    \cup {<<Listed(nApp, <<"2.1.0">>, m), Listed(nTypes, <<"1.5.0">>, <<>>),
            Listed(nOptional, <<"1.5.0">>, <<>>)>> : m \in PeerMaps(nApp)}

\* lines 138-139: the peer is not listed or its version does not satisfy
V110Unmet(dependencies, req) ==
    LET hit == FindIn(dependencies, req[1])
    IN \/ hit = {}
       \/ ~SemverSatisfies(dependencies[CHOOSE i \in hit : TRUE].version, req[2])

\* lines 140-146: the issue pushed for an unmet requirement
V110Issue(dependencies, name, req) ==
    LET hit == FindIn(dependencies, req[1])
    IN [packageName |-> name,
        peer |-> req[1],
        required |-> req[2],
        current |-> IF hit = {} THEN <<"missing">>
                    ELSE dependencies[CHOOSE i \in hit : TRUE].version,
        isOptional |-> req[1] \in OPTIONAL_DEPS]

\* lines 131-148: the issues of one listed package, in the order of its peers
V110EntryIssues(dependencies, e) ==
    LET Raised(req) == ~MatchesIgnorePattern(req[1]) /\ V110Unmet(dependencies, req)
        raised == SelectSeq(e.peerDependencies, Raised)
    IN [j \in DOMAIN raised |-> V110Issue(dependencies, e.name, raised[j])]

\* lines 129-151: the issues of the packages from the k-th on
RECURSIVE V110IssuesFrom(_, _)
V110IssuesFrom(dependencies, k) ==
    IF k > Len(dependencies) THEN <<>>
    ELSE (IF dependencies[k].hasPeers
          THEN V110EntryIssues(dependencies, dependencies[k]) ELSE <<>>)
         \o V110IssuesFrom(dependencies, k + 1)

V110Analyze(dependencies) == V110IssuesFrom(dependencies, 1)

\* lines 175 and 253: the issues that are not optional
IsCritical(i) == ~i.isOptional

\* lines 183-184 and 279-280: the install verb, a string
V110Command(manager) ==
    IF manager = "yarn" THEN "yarn add"
    ELSE IF manager = "pnpm" THEN "pnpm add"
    ELSE "npm install"

\* command.split(' ')
V110CommandWords(manager) ==
    IF manager = "yarn" THEN <<"yarn", "add">>
    ELSE IF manager = "pnpm" THEN <<"pnpm", "add">>
    ELSE <<"npm", "install">>

\* line 189: `${i.peer}@"${i.required}"`
V110Specifier(i) == i.peer \o <<"@", "\"">> \o i.required \o <<"\"">>

Min(a, b) == IF a < b THEN a ELSE b

\* depsToInstall.slice(i, i + chunkSize), i counted from 0
Slice(list, i, j) == SubSeq(list, i + 1, Min(j, Len(list)))

V110ShowHelp ==
    /\ release = "1.1.0" /\ pc = "start"
    /\ argv \cap {"--help", "-h", "--version", "-v"} # {}
    /\ stdout' = Append(stdout, <<"HELP_TEXT">>)
    /\ Exit(0)
    /\ UNCHANGED <<nodeModules, verification>>
    /\ UNCHANGED <<stderr, cwd, release, argv, packageJson, packageManager, result, cursor, issues,
                   issueList, depsToInstall, chunkStart, execaCalls>>

\* lines 45-80: no readable package.json ends the process with code 1
V110DetectPackageManager ==
    /\ release = "1.1.0" /\ pc = "start"
    /\ argv \cap {"--help", "-h", "--version", "-v"} = {}
    /\ IF packageJson.readable
       THEN /\ packageManager' = V110detectPackageManager(cwd)
            /\ pc' = "getDependencies"
            /\ UNCHANGED <<stderr, exitCode>>
       ELSE /\ stderr' = Append(stderr,
                           ErrorLine("This command must be run in a Node.js project directory"))
            /\ Exit(1)
            /\ UNCHANGED packageManager
    /\ UNCHANGED <<nodeModules, verification>>
    /\ UNCHANGED <<cwd, release, argv, packageJson, result, cursor, issues, issueList,
                   depsToInstall, chunkStart, execaCalls, stdout>>

\* lines 82-113: the listing of the manager, or an error that ends the run
V110GetDependencies ==
    /\ release = "1.1.0" /\ pc = "getDependencies"
    /\ \E ok \in BOOLEAN :
         /\ execaCalls' = Append(execaCalls,
               [cmd |-> IF packageManager \in {"yarn", "pnpm"} THEN packageManager
                        ELSE "npm",
                args |-> << <<"list">>, <<"--json">>, <<"--depth=0">> >>,
                ok |-> ok])
         /\ IF ok
            THEN /\ \E l \in Listings : result' = [EmptyCatalog EXCEPT !.dependencies = l]
                 /\ pc' = "analyze"
                 /\ UNCHANGED <<stderr, exitCode>>
            ELSE /\ stderr' = Append(stderr, ErrorLine("list failed"))
                 /\ Exit(1)
                 /\ UNCHANGED result
    /\ UNCHANGED <<nodeModules, verification>>
    /\ UNCHANGED <<cwd, release, argv, packageJson, packageManager, cursor, issues, issueList,
                   depsToInstall, chunkStart, stdout>>

\* lines 122-156 and 236-245: the issues, then the branch on --fix
V110AnalyzePeerDependencies ==
    /\ release = "1.1.0" /\ pc = "analyze"
    /\ issueList' = V110Analyze(result.dependencies)
    /\ pc' = IF "--fix" \in argv THEN "autoFix" ELSE "report"
    /\ UNCHANGED <<nodeModules, verification>>
    /\ UNCHANGED <<stderr, cwd, release, argv, packageJson, packageManager, result, cursor, issues,
                   depsToInstall, chunkStart, execaCalls, stdout, exitCode>>

\* lines 247-291: analyze mode prints the issues and main returns
V110Report ==
    /\ release = "1.1.0" /\ pc = "report"
    /\ stdout' =
         IF issueList = <<>>
         THEN Append(stdout, <<"No peer dependency issues found!">>)
         ELSE LET critical == SelectSeq(issueList, IsCritical)
              IN IF critical = <<>> THEN Append(stdout, <<"Suggested Actions:">>)
                 ELSE stdout \o
                      << <<"Suggested Actions:">>,
                         <<V110Command(packageManager)>>
                            \o JoinArgs([j \in DOMAIN critical |-> V110Specifier(critical[j])]) >>
    /\ Exit(0)
    /\ UNCHANGED <<nodeModules, verification>>
    /\ UNCHANGED <<stderr, cwd, release, argv, packageJson, packageManager, result, cursor, issues,
                   issueList, depsToInstall, chunkStart, execaCalls>>

\* lines 167-189: nothing critical to fix, or the specifiers are formed
V110AutoFix ==
    /\ release = "1.1.0" /\ pc = "autoFix"
    /\ LET critical == SelectSeq(issueList, IsCritical)
       IN IF critical = <<>>
          THEN /\ stdout' = Append(stdout, <<"No critical fixes needed.">>)
               /\ Exit(0)
               /\ UNCHANGED <<depsToInstall, chunkStart>>
          ELSE /\ depsToInstall' = [j \in DOMAIN critical |-> V110Specifier(critical[j])]
               /\ chunkStart' = 0
               /\ pc' = "install"
               /\ UNCHANGED <<stdout, exitCode>>
    /\ UNCHANGED <<nodeModules, verification>>
    /\ UNCHANGED <<stderr, cwd, release, argv, packageJson, packageManager, result, cursor, issues,
                   issueList, execaCalls>>

\* lines 193-197 and 212-219: one chunk is installed; a failure ends the run
V110InstallChunk ==
    /\ release = "1.1.0" /\ pc = "install"
    /\ chunkStart < Len(depsToInstall)
    /\ \E ok \in BOOLEAN :
         /\ execaCalls' = Append(execaCalls,
               [cmd |-> V110CommandWords(packageManager)[1],
                args |-> << <<V110CommandWords(packageManager)[2]>> >>
                         \o Slice(depsToInstall, chunkStart, chunkStart + chunkSize),
                ok |-> ok])
         /\ IF ok
            THEN chunkStart' = chunkStart + chunkSize /\ UNCHANGED <<pc, stderr, exitCode>>
            ELSE /\ stderr' = Append(stderr, ErrorLine("install failed"))
                 /\ Exit(1) /\ UNCHANGED chunkStart
    /\ UNCHANGED <<nodeModules, verification>>
    /\ UNCHANGED <<cwd, release, argv, packageJson, packageManager, result, cursor, issues,
                   issueList, depsToInstall, stdout>>

\* lines 199-211: after the last chunk the manager's own install is run
V110UpdateDependencies ==
    /\ release = "1.1.0" /\ pc = "install"
    /\ chunkStart >= Len(depsToInstall)
    /\ \E ok \in BOOLEAN :
         /\ execaCalls' = Append(execaCalls,
               [cmd |-> packageManager, args |-> << <<"install">> >>, ok |-> ok])
         /\ stderr' = IF ok THEN stderr ELSE Append(stderr, ErrorLine("install failed"))
         /\ Exit(IF ok THEN 0 ELSE 1)
    /\ stdout' = stdout
    /\ UNCHANGED <<nodeModules, verification>>
    /\ UNCHANGED <<cwd, release, argv, packageJson, packageManager, result, cursor, issues,
                   issueList, depsToInstall, chunkStart>>

(***************************************************************************)
(* The run of v1.1.7 (src/unnamed/part_001).                               *)
(***************************************************************************)
\* the peer maps of the package.json files in node_modules: as the metadata
\* source has them, the ignored scope left out
InstalledPeerMaps(name) ==
    {m \in PeerMaps(name) : \A j \in DOMAIN m : ~MatchesIgnorePattern(m[j][1])}

\* the package.json a declared package can have in node_modules
PackageJsonChoices(catalog, name) ==
    IF FindIn(catalog.dependencies, name) = {} THEN {NotInstalled}
    ELSE {NotInstalled} \cup {Installed(m) : m \in InstalledPeerMaps(name)}

\* what analyzeDependencies can find on disk: node_modules is there, or it
\* is not and `npm install` puts it there or fails
NodeModulesChoices(catalog) ==
    {[dir |-> d, installOk |-> TRUE, app |-> a, react |-> r] :
        d \in {"present", "ENOENT"},
        a \in PackageJsonChoices(catalog, nApp),
        r \in PackageJsonChoices(catalog, nReact)}
    \cup {[dir |-> "ENOENT", installOk |-> FALSE, app |-> NotInstalled,
           react |-> NotInstalled]}

\* what `npm view <name>@<version> peerDependencies --json` can come to: an
\* error, or the first requirement the metadata source has for the package
V117FetchOutcomes(name) ==
    {[how |-> "throws", data |-> <<>>],
     [how |-> "data",
      data |-> IF KnownReqs(name) = {} THEN <<>>
               ELSE Pick(PeerReqUniverse,
                         {CHOOSE i \in KnownReqs(name) : \A j \in KnownReqs(name) : i <= j})]}

\* lines 197-202 and 207: the entry has a peerDependencies property always
V117CatalogEntry(name, spec, outcome) ==
    [name |-> name,
     version |-> StripRangePrefix(spec),
     hasPeers |-> TRUE,
     peerDependencies |-> outcome.data]

\* lines 271-296: the commands of a manager; "peer" is a token of the flags
\* that contain it
commands(manager) ==
    CASE manager = "npm" ->
           [cmd |-> "npm",
            args |-> << <<"install">>, <<"--save-", "peer">>,
                        <<"--legacy-", "peer", "-deps">> >>,
            verifyCmd |-> "npm", verifyArgs |-> << <<"ls">>, <<"--json">> >>]
      [] manager = "yarn" ->
           [cmd |-> "yarn",
            args |-> << <<"add">>, <<"--legacy-", "peer", "-deps">> >>,
            verifyCmd |-> "yarn", verifyArgs |-> << <<"list">>, <<"--json">> >>]
      [] manager = "pnpm" ->
           [cmd |-> "pnpm",
            args |-> << <<"add">>, <<"--save-", "peer">> >>,
            verifyCmd |-> "pnpm", verifyArgs |-> << <<"list">>, <<"--json">> >>]
      [] manager = "bun" ->
           [cmd |-> "bun",
            args |-> << <<"add">> >>,
            verifyCmd |-> "bun", verifyArgs |-> << <<"pm">>, <<"ls">>, <<"--json">> >>]

\* arg.includes('peer')
IncludesPeer(arg) == "peer" \in Range(arg)

\* command.args.filter(arg => !arg.includes('peer'))
baseArgs(args) == LET Keeps(arg) == ~IncludesPeer(arg) IN SelectSeq(args, Keeps)

\* String(undefined)
UNDEFINED == <<"undefined">>

\* lines 265-268: `${i.split('@')[0]}@${i.split('@')[1]}`
V117FixSpecifier(i) ==
    At(FirstPiece(i), IF SecondPiece(i) = NULL THEN UNDEFINED ELSE SecondPiece(i))

\* the names a listing of installed packages can have as keys
PackageNames == {PeerReqUniverse[i][1] : i \in DOMAIN PeerReqUniverse}

\* the packages the specifiers were formed for
RequestedNames(specs) ==
    {n \in PackageNames :
        \E i \in DOMAIN specs :
            Len(specs[i]) >= Len(n) /\ SubSeq(specs[i], 1, Len(n)) = n}

\* the keys of JSON.parse(stdout).dependencies: everything asked for, nothing
\* of it, or all but one package
ListedChoices(specs) ==
    LET asked == RequestedNames(specs)
    IN {{}, asked} \cup {asked \ {n} : n \in asked}

\* lines 326-327: depsToInstall.map(dep => dep.split('@')[0]).filter(dep => !deps[dep])
V117NotListed(specs, listed) ==
    LET Absent(dep) == dep \notin listed
    IN SelectSeq([i \in DOMAIN specs |-> FirstPiece(specs[i])], Absent)

\* destructuring { packageName, peer, required, current } of a string
OfString(dep) ==
    [packageName |-> UNDEFINED, peer |-> UNDEFINED, required |-> UNDEFINED,
     current |-> UNDEFINED]

\* destructuring { packageName, peer, required, current } of a conflict object
OfConflict(conflict) ==
    [packageName |-> UNDEFINED, peer |-> conflict.peer,
     required |-> conflict.required, current |-> UNDEFINED]

\* lines 373-381: the lines of one entry of a package of the tree
TreeLines(item) ==
    << <<"  |- ">> \o item.peer,
       <<"  |  Required: ">> \o item.required,
       <<"  |  Current:  ">> \o item.current,
       <<"  |">> >>

\* lines 357-384: no item names its packageName, so the tree has the one
\* package "undefined" with every item under it
V117FormatDependencyTree(items) ==
    IF items = <<>> THEN << <<>> >>
    ELSE << <<"[package] ">> \o UNDEFINED >>
         \o Flatten([i \in DOMAIN items |-> TreeLines(items[i])])

\* lines 387-388: the install verb, a string
V117Command(manager) ==
    IF manager = "yarn" THEN "yarn add"
    ELSE IF manager = "pnpm" THEN "pnpm add"
    ELSE "npm install"

\* lines 402-410: the line or lines for the peers that share a required range
SuggestLines(manager, version, peers) ==
    LET specs == [i \in DOMAIN peers |-> peers[i] \o <<"@", "\"">> \o version \o <<"\"">>]
        line == <<V117Command(manager)>> \o JoinArgs(specs)
    IN IF Len(peers) = 1 THEN <<line>>
       ELSE << <<"# Install compatible version for multiple packages">>, line >>

\* lines 386-413: one command per required range, in the order of first use
V117FormatSuggestedActions(items, manager) ==
    LET versions == AddToSet(<<>>, [i \in DOMAIN items |-> items[i].required])
        PeersOf(version) ==
            LET Wants(item) == item.required = version
                wanting == SelectSeq(items, Wants)
            IN AddToSet(<<>>, [i \in DOMAIN wanting |-> wanting[i].peer])
    IN IF items = <<>> THEN << <<>> >>
       ELSE Flatten([k \in DOMAIN versions |->
                SuggestLines(manager, versions[k], PeersOf(versions[k]))])

\* lines 227-239: what analyzePeerDependencies prints
V117AnalysisOutput(found) ==
    (IF found.missingPeerDeps # <<>>
     THEN << <<"Missing peer dependencies:">> >> \o Bulleted(found.missingPeerDeps)
     ELSE <<>>)
    \o (IF found.versionConflicts # <<>>
        THEN << <<"Version conflicts:">> >>
             \o Bulleted([i \in DOMAIN found.versionConflicts |->
                    ConflictMessage(found.versionConflicts[i].package,
                                    found.versionConflicts[i].peer,
                                    found.versionConflicts[i].required,
                                    found.versionConflicts[i].installed)])
        ELSE <<>>)

\* lines 46-56: --help and --version end the process before main runs
V117ShowHelp ==
    /\ release = "1.1.7" /\ pc = "start"
    /\ argv \cap {"--help", "-h", "--version", "-v"} # {}
    /\ stdout' = Append(stdout, <<"HELP_TEXT">>)
    /\ Exit(0)
    /\ UNCHANGED <<stderr, cwd, release, argv, packageJson, packageManager, result, cursor, issues,
                   issueList, depsToInstall, chunkStart, execaCalls, nodeModules,
                   verification>>

\* line 430: the package manager is detected
V117DetectPackageManager ==
    /\ release = "1.1.7" /\ pc = "start"
    /\ argv \cap {"--help", "-h", "--version", "-v"} = {}
    /\ packageManager' = V117detectPackageManager(cwd, packageJson)
    /\ pc' = "getDependencies"
    /\ UNCHANGED <<stderr, cwd, release, argv, packageJson, result, cursor, issues, issueList,
                   depsToInstall, chunkStart, execaCalls, stdout, nodeModules,
                   verification, exitCode>>

\* lines 174-193: the manifest is read, a failure is thrown to main's catch;
\* then package-lock.json is read, or `npm list` is run when it cannot be
V117GetDependencies ==
    /\ release = "1.1.7" /\ pc = "getDependencies"
    /\ IF packageJson.readable
       THEN /\ \E lock \in {"read", "listed", "list fails"} :
                 execaCalls' =
                     IF lock = "read" THEN execaCalls
                     ELSE Append(execaCalls,
                              [cmd |-> "npm",
                               args |-> << <<"list">>, <<"--json">>, <<"--all">> >>,
                               ok |-> lock = "listed"])
            /\ cursor' = <<1, 1>>
            /\ pc' = IF packageJson.dependencies = <<>> THEN "analyze" ELSE "processDeps"
            /\ UNCHANGED <<stderr, exitCode>>
       ELSE /\ stderr' = Append(stderr, ErrorLine("cannot read package.json"))
            /\ Exit(1)
            /\ UNCHANGED <<cursor, execaCalls>>
    /\ result' = EmptyCatalog
    /\ UNCHANGED <<cwd, release, argv, packageJson, packageManager, issues, issueList,
                   depsToInstall, chunkStart, stdout, nodeModules, verification>>

\* lines 197-211: one iteration of the loop over packageJson.dependencies
V117ProcessDep ==
    /\ release = "1.1.7" /\ pc = "processDeps"
    /\ LET entry == packageJson.dependencies[cursor[2]]
       IN \E outcome \in V117FetchOutcomes(entry[1]) :
            /\ result' = [result EXCEPT !.dependencies =
                             Append(@, V117CatalogEntry(entry[1], entry[2], outcome))]
            /\ execaCalls' = Append(execaCalls,
                   [cmd |-> "npm",
                    args |-> << <<"view">>, At(entry[1], entry[2]),
                                <<"peerDependencies">>, <<"--json">> >>,
                    ok |-> outcome.how # "throws"])
    /\ cursor' = <<1, cursor[2] + 1>>
    /\ pc' = IF cursor'[2] > Len(packageJson.dependencies) THEN "analyze"
             ELSE "processDeps"
    /\ UNCHANGED <<stderr, cwd, release, argv, packageJson, packageManager, issues, issueList,
                   depsToInstall, chunkStart, stdout, nodeModules, verification,
                   exitCode>>

\* lines 221-251 and 447-456: analyzeDependencies is given the catalog; it
\* runs `npm install` first when there is no node_modules
V117AnalyzePeerDependencies ==
    /\ release = "1.1.7" /\ pc = "analyze"
    /\ \E modules \in NodeModulesChoices(result) :
         /\ nodeModules' = modules
         /\ stderr' = IF modules.dir = "ENOENT" /\ ~modules.installOk
                      THEN Append(stderr, <<"Failed to install dependencies:">>)
                      ELSE stderr
         /\ execaCalls' =
              IF modules.dir = "ENOENT"
              THEN Append(execaCalls,
                       [cmd |-> "npm",
                        args |-> << <<"install">>, <<"--legacy-", "peer", "-deps">> >>,
                        ok |-> modules.installOk])
              ELSE execaCalls
         /\ issues' = analyzeDependencies(CatalogAsPackageJson(result), modules)
    /\ stdout' = stdout \o V117AnalysisOutput(issues')
    /\ pc' = IF "--fix" \in argv THEN "autoFix" ELSE "report"
    /\ UNCHANGED <<cwd, release, argv, packageJson, packageManager, result, cursor, issueList,
                   depsToInstall, chunkStart, verification, exitCode>>

\* lines 456-463: analyze mode prints the issues and main returns
V117Report ==
    /\ release = "1.1.7" /\ pc = "report"
    /\ stdout' =
         IF issues.missingPeerDeps # <<>> \/ issues.versionConflicts # <<>>
         THEN LET missing == [i \in DOMAIN issues.missingPeerDeps |->
                                 OfString(issues.missingPeerDeps[i])]
                  conflicts == [i \in DOMAIN issues.versionConflicts |->
                                   OfConflict(issues.versionConflicts[i])]
              IN stdout \o V117FormatDependencyTree(missing)
                        \o V117FormatDependencyTree(conflicts)
                        \o V117FormatSuggestedActions(missing, packageManager)
                        \o V117FormatSuggestedActions(conflicts, packageManager)
         ELSE Append(stdout, <<"No peer dependency issues found!">>)
    /\ Exit(0)
    /\ UNCHANGED <<stderr, cwd, release, argv, packageJson, packageManager, result, cursor, issues,
                   issueList, depsToInstall, chunkStart, execaCalls, nodeModules,
                   verification>>

\* lines 253-268: nothing to fix, or the specifiers are formed
V117AutoFix ==
    /\ release = "1.1.7" /\ pc = "autoFix"
    /\ IF issues.missingPeerDeps = <<>>
       THEN /\ stdout' = Append(stdout, <<"No issues to fix!">>)
            /\ Exit(0)
            /\ UNCHANGED depsToInstall
       ELSE /\ depsToInstall' = [i \in DOMAIN issues.missingPeerDeps |->
                                    V117FixSpecifier(issues.missingPeerDeps[i])]
            /\ pc' = "install"
            /\ UNCHANGED <<stdout, exitCode>>
    /\ UNCHANGED <<stderr, cwd, release, argv, packageJson, packageManager, result, cursor, issues,
                   issueList, chunkStart, execaCalls, nodeModules, verification>>

\* lines 298-309: the install with the manager's flags
V117InstallAttempt ==
    /\ release = "1.1.7" /\ pc = "install"
    /\ \E ok \in BOOLEAN :
         /\ execaCalls' = Append(execaCalls,
               [cmd |-> commands(packageManager).cmd,
                args |-> commands(packageManager).args \o depsToInstall,
                ok |-> ok])
         /\ pc' = IF ok THEN "verify" ELSE "retry"
    /\ UNCHANGED <<stderr, cwd, release, argv, packageJson, packageManager, result, cursor, issues,
                   issueList, depsToInstall, chunkStart, stdout, nodeModules,
                   verification, exitCode>>

\* V117InstallRetry with the failure of the retry caught like the failure of
\* the first attempt: autoFix goes on to the verification
V117InstallRetryGoesOn ==
    /\ release = "1.1.7" /\ pc = "retry"
    /\ \E ok \in BOOLEAN :
         execaCalls' = Append(execaCalls,
               [cmd |-> commands(packageManager).cmd,
                args |-> baseArgs(commands(packageManager).args) \o depsToInstall,
                ok |-> ok])
    /\ pc' = "verify"
    /\ UNCHANGED <<stderr, cwd, release, argv, packageJson, packageManager, result, cursor,
                   issues, issueList, depsToInstall, chunkStart, stdout, nodeModules,
                   verification, exitCode>>

\* lines 310-319 and 347-354: the install without the peer flags; its failure
\* is thrown to the outer catch and the process exits with code 1
V117InstallRetry ==
    /\ release = "1.1.7" /\ pc = "retry"
    /\ \E ok \in BOOLEAN :
         /\ execaCalls' = Append(execaCalls,
               [cmd |-> commands(packageManager).cmd,
                args |-> baseArgs(commands(packageManager).args) \o depsToInstall,
                ok |-> ok])
         /\ IF ok THEN pc' = "verify" /\ UNCHANGED <<stderr, exitCode>>
            ELSE /\ stderr' = Append(stderr, ErrorLine("install failed"))
                 /\ Exit(1)
    /\ UNCHANGED <<cwd, release, argv, packageJson, packageManager, result, cursor, issues,
                   issueList, depsToInstall, chunkStart, stdout, nodeModules,
                   verification>>

\* lines 336-339 and 353 put together: a failed verification ends the process
V117VerifyFailsFatal(ok, listed) ==
    IF ok
    THEN /\ verification' = [state |-> "done", listed |-> listed,
                             missingDeps |-> V117NotListed(depsToInstall, listed)]
         /\ UNCHANGED stderr
         /\ Exit(0)
    ELSE /\ verification' = [state |-> "failed", listed |-> {}, missingDeps |-> <<>>]
         /\ stderr' = Append(stderr, ErrorLine("list failed"))
         /\ Exit(1)

\* lines 323-339 and the return to main: the listing is compared with the
\* specifiers; a listing that fails or does not parse is a warning
V117Verify(ok, listed) ==
    /\ verification' =
         IF ok THEN [state |-> "done", listed |-> listed,
                     missingDeps |-> V117NotListed(depsToInstall, listed)]
         ELSE [state |-> "failed", listed |-> {}, missingDeps |-> <<>>]
    /\ stderr' = IF ok THEN stderr ELSE Append(stderr, <<"list failed">>)
    /\ Exit(0)

\* lines 321-346: the step "Verify installations" and the closing messages
V117VerifyInstallations ==
    /\ release = "1.1.7" /\ pc = "verify"
    /\ \E ok \in BOOLEAN :
         \E listed \in (IF ok THEN ListedChoices(depsToInstall) ELSE {{}}) :
            /\ execaCalls' = Append(execaCalls,
                  [cmd |-> commands(packageManager).verifyCmd,
                   args |-> commands(packageManager).verifyArgs,
                   ok |-> ok])
            /\ V117Verify(ok, listed)
    /\ stdout' =
         stdout
         \o (IF verification'.missingDeps # <<>>
             THEN << <<"The following dependencies may need manual installation:">> >>
                  \o Bulleted(verification'.missingDeps)
             ELSE <<>>)
         \o << <<"Fixed peer dependency issues!">> >>
         \o (IF issues.versionConflicts # <<>>
             THEN << <<"Note: Some version conflicts were skipped.">>,
                     <<"These are typically version conflicts that may not affect your project.">> >>
             ELSE <<>>)
    /\ UNCHANGED <<cwd, release, argv, packageJson, packageManager, result, cursor, issues,
                   issueList, depsToInstall, chunkStart, nodeModules>>

Next ==
    \/ ShowHelp
    \/ DetectPackageManager
    \/ ReadManifest
    \/ ProcessDep
    \/ AnalyzePeerDependencies
    \/ Report
    \/ AutoFix
    \/ InstallAttempt
    \/ InstallRetry
    \/ V110ShowHelp
    \/ V110DetectPackageManager
    \/ V110GetDependencies
    \/ V110AnalyzePeerDependencies
    \/ V110Report
    \/ V110AutoFix
    \/ V110InstallChunk
    \/ V110UpdateDependencies
    \/ V117ShowHelp
    \/ V117DetectPackageManager
    \/ V117GetDependencies
    \/ V117ProcessDep
    \/ V117AnalyzePeerDependencies
    \/ V117Report
    \/ V117AutoFix
    \/ V117InstallAttempt
    \/ V117InstallRetry
    \/ V117VerifyInstallations

Spec == Init /\ [][Next]_vars

(***************************************************************************)
(* analyzeDependencies of v1.1.7 called with a manifest, as its parameter  *)
(* packageJson and its three addDependencies calls provide for.            *)
(***************************************************************************)
\* the manifest declares the package in one of its kinds
DeclaredIn(manifest, name) ==
    \E k \in DOMAIN Kinds : \E i \in DOMAIN manifest[Kinds[k]] :
        manifest[Kinds[k]][i][1] = name

\* the package.json files node_modules can hold for the declared packages
FnNodeModulesChoices(manifest) ==
    {[dir |-> d, installOk |-> TRUE, app |-> a, react |-> r] :
        d \in {"present", "ENOENT"},
        a \in (IF DeclaredIn(manifest, nApp)
               THEN {NotInstalled} \cup {Installed(m) : m \in InstalledPeerMaps(nApp)}
               ELSE {NotInstalled}),
        r \in (IF DeclaredIn(manifest, nReact)
               THEN {NotInstalled} \cup {Installed(m) : m \in InstalledPeerMaps(nReact)}
               ELSE {NotInstalled})}
    \cup {[dir |-> "ENOENT", installOk |-> FALSE, app |-> NotInstalled,
           react |-> NotInstalled]}

InitAnalyzeDependencies ==
    /\ release = "1.1.7"
    /\ pc = "call"
    /\ argv = {}
    /\ cwd = Directory({}, NULL, NULL)
    /\ packageJson \in {ManifestOf(Pick(DeclUniverse, I)) :
                           I \in DeclChoices(MaxCallDeclared)}
    /\ packageManager = "none"
    /\ result = EmptyCatalog
    /\ cursor = <<1, 1>>
    /\ issues = NoIssues
    /\ issueList = <<>>
    /\ depsToInstall = <<>>
    /\ chunkStart = 0
    /\ execaCalls = <<>>
    /\ stdout = <<>>
    /\ stderr = <<>>
    /\ nodeModules = NoNodeModules
    /\ verification = NotVerified
    /\ exitCode = -1

\* lines 92-169: one call of analyzeDependencies(packageJson)
CallAnalyzeDependencies ==
    /\ pc = "call"
    /\ \E modules \in FnNodeModulesChoices(packageJson) :
         /\ nodeModules' = modules
         /\ stderr' = IF modules.dir = "ENOENT" /\ ~modules.installOk
                      THEN Append(stderr, <<"Failed to install dependencies:">>)
                      ELSE stderr
         /\ execaCalls' =
              IF modules.dir = "ENOENT"
              THEN Append(execaCalls,
                       [cmd |-> "npm",
                        args |-> << <<"install">>, <<"--legacy-", "peer", "-deps">> >>,
                        ok |-> modules.installOk])
              ELSE execaCalls
         /\ issues' = analyzeDependencies(packageJson, modules)
    /\ pc' = "returned"
    /\ UNCHANGED <<cwd, release, argv, packageJson, packageManager, result, cursor, issueList,
                   depsToInstall, chunkStart, stdout, verification, exitCode>>

NextAnalyzeDependencies == CallAnalyzeDependencies

SpecAnalyzeDependencies ==
    InitAnalyzeDependencies /\ [][NextAnalyzeDependencies]_vars

(***************************************************************************)
(* detectPackageManager called in a directory, for each of the releases.   *)
(***************************************************************************)
InitDetectPackageManager ==
    /\ release \in {"1.1.12", "1.1.7", "1.1.0"}
    /\ pc = "detect"
    /\ argv = {}
    /\ cwd \in Directories
    /\ packageJson \in {ManifestOf(<<>>), Unreadable}
    /\ packageManager = "none"
    /\ result = EmptyCatalog
    /\ cursor = <<1, 1>>
    /\ issues = NoIssues
    /\ issueList = <<>>
    /\ depsToInstall = <<>>
    /\ chunkStart = 0
    /\ execaCalls = <<>>
    /\ stdout = <<>>
    /\ stderr = <<>>
    /\ nodeModules = NoNodeModules
    /\ verification = NotVerified
    /\ exitCode = -1

\* one call of detectPackageManager; v1.1.0 ends the process when it cannot
\* read package.json (part_002 lines 75-79)
CallDetectPackageManager ==
    /\ pc = "detect"
    /\ IF release = "1.1.0" /\ ~packageJson.readable
       THEN /\ stderr' = Append(stderr,
                           ErrorLine("This command must be run in a Node.js project directory"))
            /\ Exit(1) /\ UNCHANGED packageManager
       ELSE /\ packageManager' =
                 CASE release = "1.1.12" -> detectPackageManager(cwd, packageJson)
                   [] release = "1.1.7" -> V117detectPackageManager(cwd, packageJson)
                   [] release = "1.1.0" -> V110detectPackageManager(cwd)
            /\ pc' = "detected"
            /\ UNCHANGED <<stderr, exitCode>>
    /\ UNCHANGED <<cwd, release, argv, packageJson, result, cursor, issues, issueList,
                   depsToInstall, chunkStart, execaCalls, stdout, nodeModules,
                   verification>>

NextDetectPackageManager == CallDetectPackageManager

SpecDetectPackageManager ==
    InitDetectPackageManager /\ [][NextDetectPackageManager]_vars

(***************************************************************************)
(* The recursive walk over peer edges (checkDeepPeerDependencies), which   *)
(* the example of src/unnamed/part_005 calls and no source file defines.   *)
(***************************************************************************)
\* the names of the packages of a catalog
CatalogNames(catalog) ==
    {e.name : e \in UNION {Range(catalog[Kinds[k]]) : k \in DOMAIN Kinds}}

\* walk(root, catalog, visited): the requirements <<consumer, peer, required>>
\* evaluated from root on; a requirement on an ignored peer is skipped, a
\* peer that is in the catalog is entered unless the traversal has been there
RECURSIVE walk(_, _, _)
walk(root, catalog, visited) ==
    IF root \in visited THEN {}
    ELSE LET reqs == {q \in Requirements(catalog) :
                        q[1] = root /\ ~MatchesIgnorePattern(q[2])}
             entered == visited \cup {root}
         IN reqs \cup UNION {walk(q[2], catalog, entered) :
                                q \in {r \in reqs : r[2] \in CatalogNames(catalog)}}

\* one traversal from every package of the catalog, each with its own
\* visited set
WalkAll(catalog) == UNION {walk(root, catalog, {}) : root \in CatalogNames(catalog)}

(***************************************************************************)
(* What the claims speak of.                                               *)
(***************************************************************************)
\* the analysis of index.js has returned its result
Analysed ==
    /\ release = "1.1.12"
    /\ packageJson.readable
    /\ argv \cap {"--help", "-h", "--version", "-v"} = {}
    /\ pc \notin {"start", "getDependencies", "processDeps", "analyze"}

\* the manifest declares name in one of its kinds
Declared(name) ==
    \E k \in DOMAIN Kinds : \E i \in DOMAIN packageJson[Kinds[k]] :
        packageJson[Kinds[k]][i][1] = name

\* the entries of the conflict list that speak of one requirement
ConflictsFor(name, peer, required) ==
    LET prefix == name \o <<" requires ">> \o At(peer, required) \o <<", but ">>
    IN {c \in Range(issues.versionConflicts) :
           Len(c) >= Len(prefix) /\ SubSeq(c, 1, Len(prefix)) = prefix}

\* the requirement has an entry in the missing list
InMissing(peer, required) == At(peer, required) \in Range(issues.missingDeps)

\* a command that installs packages
IsInstallCall(c) == c.args[1] \in {<<"install">>, <<"add">>}

\* two ranges have a version in common
Intersects(r1, r2) ==
    \E t \in VersionTokens : RangeTest(r1, SemVerOf(t)) /\ RangeTest(r2, SemVerOf(t))

\* C1: in fix mode, a run whose analysis reported missing peers has, when it
\* ends, issued an install command to the detected package manager whose
\* arguments name every reported missing peer.
C1_FixInstallsEveryMissingPeer ==
    (Analysed /\ pc = "done" /\ "--fix" \in argv /\ issues.missingDeps # <<>>) =>
        \E i \in DOMAIN execaCalls :
            /\ execaCalls[i].cmd = packageManager
            /\ IsInstallCall(execaCalls[i])
            /\ \A j \in DOMAIN issues.missingDeps :
                   issues.missingDeps[j] \in Range(execaCalls[i].args)

\* C2: a peer requirement whose peer is found at a version that satisfies
\* the required range is recorded neither as missing nor as a conflict,
\* optional peer or not.
C2_SatisfiedPeerRaisesNoIssue ==
    Analysed =>
        \A req \in Requirements(result) :
            SemverSatisfies(findInstalledVersion(result, req[2]), req[3]) =>
                /\ ~InMissing(req[2], req[3])
                /\ ConflictsFor(req[1], req[2], req[3]) = {}

\* a run in which an optional peer is satisfied while another requirement
\* of the same catalog raised an issue
C2_Witness ==
    /\ Analysed /\ pc = "done"
    /\ issues.hasIssues
    /\ \E req \in Requirements(result) :
          /\ req[2] \in OPTIONAL_DEPS
          /\ SemverSatisfies(findInstalledVersion(result, req[2]), req[3])

C4_IntersectingIsWarningNotConflict ==
    Analysed =>
        \A req \in Requirements(result) :
            LET current == SemverClean(findInstalledVersion(result, req[2]))
            IN (/\ current # NULL
                /\ ~SemverSatisfies(current, req[3])
                /\ Intersects(req[3], <<"^">> \o current)) =>
                   ConflictsFor(req[1], req[2], req[3]) = {}

\* C5: no issue is produced for a peer whose name matches an ignore
\* pattern, by index.js as by v1.1.0.
C5_IgnoredPeerRaisesNoIssue ==
    /\ Analysed =>
          \A req \in Requirements(result) :
              MatchesIgnorePattern(req[2]) =>
                  /\ ~InMissing(req[2], req[3])
                  /\ ConflictsFor(req[1], req[2], req[3]) = {}
    /\ release = "1.1.0" =>
          \A i \in DOMAIN issueList : ~MatchesIgnorePattern(issueList[i].peer)

\* C6: an unmet requirement on a peer of the optional list is in neither
\* the missing nor the conflict list, and no install command names it.
C6_OptionalPeerIsNeverAnError ==
    Analysed =>
        \A req \in Requirements(result) :
            req[2] \in OPTIONAL_DEPS =>
                /\ ~InMissing(req[2], req[3])
                /\ ConflictsFor(req[1], req[2], req[3]) = {}
                /\ \A i \in DOMAIN execaCalls :
                       IsInstallCall(execaCalls[i]) =>
                           At(req[2], req[3]) \notin Range(execaCalls[i].args)

\* C7: a run that ends with exit code 0 leaves no missing peer and no
\* version conflict behind.
C7_ExitZeroOnlyWithoutErrors ==
    (Analysed /\ pc = "done" /\ exitCode = 0) =>
        issues.missingDeps = <<>> /\ issues.versionConflicts = <<>>

\* C8: whichever manager was detected, the metadata source has been asked
\* for the peer requirements of every declared package before the analysis.
C8_PeerMapsLoadedForEveryManager ==
    (release = "1.1.12" /\ pc = "analyze") =>
        \A k \in DOMAIN Kinds : \A i \in DOMAIN packageJson[Kinds[k]] :
            \E j \in DOMAIN execaCalls :
                packageJson[Kinds[k]][i][1] \in Range(execaCalls[j].args)

\* C9: for every error of the analysis, a missing peer or a conflict,
\* exactly one install specifier is formed and it is peer@requiredRange.
C9_OneSpecifierPerError ==
    (release = "1.1.12" /\ pc \in {"install", "retry"}) =>
        \A req \in Requirements(result) :
            (IsMissing(result, req) \/ IsConflict(result, req)) =>
                Cardinality({i \in DOMAIN depsToInstall :
                                depsToInstall[i] = At(req[2], req[3])}) = 1

\* the specifiers of the install commands issued, command by command
InstallBatches ==
    LET HasSpecifiers(c) == IsInstallCall(c) /\ Len(c.args) > 1
        calls == SelectSeq(execaCalls, HasSpecifiers)
    IN [i \in DOMAIN calls |-> Tail(calls[i].args)]

\* C10: a fix run in which no install command failed has issued its n
\* specifiers in ceil(n/10) batches of at most 10, all but the last of
\* exactly 10, whose concatenation is the specifier list.
C10_BatchesOfTen ==
    (/\ pc = "done" /\ "--fix" \in argv /\ depsToInstall # <<>>
     /\ \A i \in DOMAIN execaCalls : IsInstallCall(execaCalls[i]) => execaCalls[i].ok) =>
        LET batches == InstallBatches
            n == Len(depsToInstall)
        IN /\ Len(batches) = (n + chunkSize - 1) \div chunkSize
           /\ \A i \in DOMAIN batches :
                  /\ Len(batches[i]) <= chunkSize
                  /\ i < Len(batches) => Len(batches[i]) = chunkSize
           /\ Flatten(batches) = depsToInstall

\* the last n elements of a list
LastN(list, n) == SubSeq(list, Len(list) - n + 1, Len(list))

\* the install commands of autoFix: those that end with the specifiers
InstallAttempts ==
    LET OfAutoFix(c) ==
            /\ IsInstallCall(c)
            /\ Len(c.args) > Len(depsToInstall)
            /\ LastN(c.args, Len(depsToInstall)) = depsToInstall
    IN SelectSeq(execaCalls, OfAutoFix)

\* the flags of an install command: its arguments in front of the specifiers
FlagsOf(c) == SubSeq(c.args, 1, Len(c.args) - Len(depsToInstall))

\* the first install attempt of autoFix has failed: the command of v1.1.7
\* failed, or line 345 of index.js has thrown
FirstAttemptFailed ==
    \/ release = "1.1.7" /\ InstallAttempts # <<>> /\ ~InstallAttempts[1].ok
    \/ release = "1.1.12" /\ pc \in {"retry", "done"}

\* C11: autoFix attempts an install at most twice; once the first attempt
\* has failed and the retry is over, there are exactly two attempts, the
\* second to the same manager with the same specifiers and the first one's
\* flags without those that name "peer"; after a retry that succeeded the
\* run is at the verification or past it.
C11_OneRetryWithoutPeerFlags ==
    (release \in {"1.1.12", "1.1.7"} /\ "--fix" \in argv /\ depsToInstall # <<>>) =>
        /\ Len(InstallAttempts) <= 2
        /\ (FirstAttemptFailed /\ pc \in {"verify", "done"}) =>
              /\ Len(InstallAttempts) = 2
              /\ InstallAttempts[2].cmd = InstallAttempts[1].cmd
              /\ LET NoPeer(flag) == "peer" \notin Range(flag)
                 IN FlagsOf(InstallAttempts[2]) =
                        SelectSeq(FlagsOf(InstallAttempts[1]), NoPeer)
              /\ InstallAttempts[2].ok =>
                    pc = "verify" \/ verification.state # "none"

\* index of the last token t of s, 0 if none
RECURSIVE LastIndexOf(_, _, _)
LastIndexOf(s, t, i) ==
    IF i = 0 THEN 0 ELSE IF s[i] = t THEN i ELSE LastIndexOf(s, t, i - 1)

\* the peer an entry peer@range of a missing list asks for
PeerNameOf(dep) == SubSeq(dep, 1, LastIndexOf(dep, "@", Len(dep)) - 1)

\* the peers autoFix of v1.1.7 was asked to install
RequestedPeers ==
    {PeerNameOf(issues.missingPeerDeps[i]) : i \in DOMAIN issues.missingPeerDeps}

\* C12: when the verification has read the listing of installed packages,
\* the names it reports as needing manual installation are exactly the
\* requested peers that the listing does not have, scoped names included.
C12_VerificationReportsAbsentPeers ==
    (release \in {"1.1.12", "1.1.7"} /\ verification.state = "done") =>
        Range(verification.missingDeps) =
            {n \in RequestedPeers : n \notin verification.listed}

\* the last command handed to execa is the listing of the verification
LastCallIsListing ==
    /\ execaCalls # <<>>
    /\ execaCalls[Len(execaCalls)].cmd = commands(packageManager).verifyCmd
    /\ execaCalls[Len(execaCalls)].args = commands(packageManager).verifyArgs

\* C13: a verification whose listing command failed or whose output did not
\* parse is a warning: autoFix goes on to its closing message and the
\* process ends with exit code 0.
C13_FailedVerificationIsNotFatal ==
    (release \in {"1.1.12", "1.1.7"} /\ verification.state = "failed") =>
        /\ pc = "done"
        /\ exitCode = 0
        /\ <<"Fixed peer dependency issues!">> \in Range(stdout)

\* a fix run whose install succeeded at the second attempt and whose
\* listing command failed
C13_Witness ==
    /\ verification.state = "failed"
    /\ LastCallIsListing
    /\ ~execaCalls[Len(execaCalls)].ok
    /\ Len(InstallAttempts) = 2
    /\ pc = "done"

\* C14: a run that has to read a manifest that cannot be read or parsed
\* evaluates no peer, reports no issue, issues no install command and
\* verifies nothing, and ends with a non-zero exit code.
C14_UnreadableManifestAborts ==
    (~packageJson.readable /\ argv \cap {"--help", "-h", "--version", "-v"} = {}) =>
        /\ pc \in {"start", "getDependencies", "done"}
        /\ pc = "done" => exitCode # 0
        /\ issues = NoIssues /\ issueList = <<>>
        /\ nodeModules = NoNodeModules
        /\ stdout = <<>>
        /\ depsToInstall = <<>>
        /\ \A i \in DOMAIN execaCalls : ~IsInstallCall(execaCalls[i])
        /\ verification = NotVerified

\* a fix run of index.js that ended on an unreadable manifest
C14_Witness ==
    /\ release = "1.1.12"
    /\ ~packageJson.readable
    /\ "--fix" \in argv
    /\ packageManager \in Managers
    /\ pc = "done"
    /\ exitCode = 1

\* a command that asks the metadata source for the peers of a package
IsFetch(c) == c.args[1] \in {<<"info">>, <<"view">>}

\* the metadata commands issued, in order
Fetches == SelectSeq(execaCalls, IsFetch)

\* the entries of the catalog in the order getDependencies added them
CatalogEntries ==
    result.dependencies \o result.devDependencies \o result.peerDependencies

\* the number of declarations getDependencies goes through
DeclaredCount ==
    IF release = "1.1.7" THEN Len(packageJson.dependencies)
    ELSE Len(packageJson.dependencies) + Len(packageJson.devDependencies)
         + Len(packageJson.peerDependencies)

\* a metadata command of this run has failed
SomeFetchFailed == \E k \in DOMAIN Fetches : ~Fetches[k].ok

\* C15: in a run in which a metadata fetch failed, no fetch ends the
\* process; once getDependencies has returned, the catalog has every
\* declared package, the metadata of each of them was asked for, a package
\* whose fetch failed has an empty peer map, and the run goes through the
\* analysis.
C15_FailedFetchIsNotFatal ==
    (release \in {"1.1.12", "1.1.7"} /\ SomeFetchFailed) =>
        /\ pc = "processDeps" => exitCode = -1
        /\ pc # "processDeps" =>
              /\ Len(CatalogEntries) = DeclaredCount
              /\ Len(Fetches) = DeclaredCount
              /\ \A k \in DOMAIN Fetches :
                    /\ Fetches[k].args[2] =
                          IF release = "1.1.7"
                          THEN At(CatalogEntries[k].name, packageJson.dependencies[k][2])
                          ELSE CatalogEntries[k].name
                    /\ ~Fetches[k].ok =>
                          CatalogEntries[k].peerDependencies = <<>>
        /\ pc = "done" => stdout # <<>>

\* a yarn run of index.js whose first fetch failed, whose second fetch
\* brought a peer map and whose analysis found an issue with it
C15_Witness ==
    /\ release = "1.1.12" /\ pc = "done"
    /\ Len(Fetches) = 2
    /\ ~Fetches[1].ok /\ Fetches[2].ok
    /\ ~CatalogEntries[1].hasPeers /\ CatalogEntries[2].hasPeers
    /\ issues.hasIssues

\* the analysis of v1.1.7 has returned its result
V117Analysed == release = "1.1.7" /\ nodeModules.dir # "unread"

\* the Set deps of analyzeDependencies in the run of v1.1.7
V117Deps == addDependencies(<<>>, CatalogAsPackageJson(result).dependencies)

\* every <<consumer, peer, required>> that analyzeDependencies evaluated
V117Requirements ==
    IF nodeModules.dir = "ENOENT" /\ ~nodeModules.installOk THEN {}
    ELSE UNION {{<<FirstPiece(V117Deps[i]), m[j][1], m[j][2]>> : j \in DOMAIN m} :
                   <<i, m>> \in {<<i, PackageJsonIn(nodeModules,
                                        FirstPiece(V117Deps[i])).peerDependencies>> :
                                    i \in DOMAIN V117Deps}}

\* the version string analyzeDependencies holds for a declared peer, NULL
\* when it finds the peer in no entry of deps
V117CurrentVersion(peer) ==
    LET k == InstalledPeerDep(V117Deps, peer, 1)
    IN IF k = 0 THEN NULL ELSE SecondPiece(V117Deps[k])

\* the version string cannot be coerced to a semantic version
Uncoercible(version) == SemverValid(SemverCoerce(version)) = NULL

\* C16: a requirement on a declared peer whose current version string can
\* neither be parsed nor coerced to a semantic version has an entry in the
\* conflict list, in index.js as in v1.1.7.
C16_UncoercibleVersionIsConflict ==
    /\ Analysed =>
          \A req \in Requirements(result) :
              LET current == findInstalledVersion(result, req[2])
              IN (current # NULL /\ Uncoercible(current)) =>
                    ConflictsFor(req[1], req[2], req[3]) # {}
    /\ V117Analysed =>
          \A req \in V117Requirements :
              LET current == V117CurrentVersion(req[2])
              IN (current # NULL /\ Uncoercible(current)) =>
                    \E i \in DOMAIN issues.versionConflicts :
                        /\ issues.versionConflicts[i].package = req[1]
                        /\ issues.versionConflicts[i].peer = req[2]
                        /\ issues.versionConflicts[i].required = req[3]

\* C17: a current version string that is no exact version but coerces to
\* one is evaluated as its coerced version: when that version satisfies the
\* required range, the requirement is neither missing nor a conflict.
C17_CoercedVersionIsEvaluated ==
    Analysed =>
        \A req \in Requirements(result) :
            LET current == findInstalledVersion(result, req[2])
                coerced == SemverValid(SemverCoerce(current))
            IN (/\ current # NULL
                /\ ParseVersion(current) = <<>>
                /\ coerced # NULL
                /\ SemverSatisfies(coerced, req[3])) =>
                   /\ ~InMissing(req[2], req[3])
                   /\ ConflictsFor(req[1], req[2], req[3]) = {}

\* no kind of the catalog has an entry for the package
AbsentFromCatalog(name) ==
    \A k \in DOMAIN Kinds : FindIn(result[Kinds[k]], name) = {}

\* C18: for a peer that is absent from the catalog, the missing list has as
\* many entries as there are consumers that require it: one per consumer
\* and peer, none twice.
C18_OneMissingPerConsumerAndPeer ==
    Analysed =>
        \A peer \in {req[2] : req \in Requirements(result)} :
            AbsentFromCatalog(peer) =>
                Cardinality({i \in DOMAIN issues.missingDeps :
                                PeerNameOf(issues.missingDeps[i]) = peer})
                = Cardinality({req[1] : req \in {q \in Requirements(result) : q[2] = peer}})

\* the catalog entry a visit is at
Visited(v) == result[Kinds[v[1]]][v[2]]

\* how often the analysis evaluates a peer map of the package
EvaluationsOf(name) ==
    Cardinality({n \in DOMAIN Visits(result) :
                    /\ Visited(Visits(result)[n]).name = name
                    /\ Visited(Visits(result)[n]).hasPeers})

\* the kinds of the catalog that have an entry for the package
KindsDeclaring(name) == {k \in DOMAIN Kinds : FindIn(result[Kinds[k]], name) # {}}

Ascending(list) ==
    \A i \in DOMAIN list : i < Len(list) => StrLess(list[i], list[i + 1])

\* [...new Set(list)].sort() applied to a list
DedupeAndSort(list) == SortStrings(Range(list))

\* C21: the lists the analysis returns are a function of the catalog: each
\* is the strictly ascending list of the entries the requirements of the
\* catalog give rise to, and deduplicating and sorting a returned list again
\* gives the same list.
C21_PartitionIsDeterministicAndIdempotent ==
    Analysed =>
        /\ issues = Analyze(result)
        /\ Ascending(issues.missingDeps) /\ Ascending(issues.versionConflicts)
        /\ Range(issues.missingDeps) =
              {At(q[2], q[3]) : q \in {r \in Requirements(result) : IsMissing(result, r)}}
        /\ DedupeAndSort(issues.missingDeps) = issues.missingDeps
        /\ DedupeAndSort(issues.versionConflicts) = issues.versionConflicts

\* an analysis whose two missing peers were found in the order opposite to
\* the one they are returned in
C21_Witness ==
    /\ Analysed
    /\ Len(issues.missingDeps) = 2
    /\ \E e \in Consumers(result) :
          /\ Len(e.peerDependencies) = 2
          /\ issues.missingDeps[1] = At(e.peerDependencies[2][1], e.peerDependencies[2][2])
          /\ issues.missingDeps[2] = At(e.peerDependencies[1][1], e.peerDependencies[1][2])

\* a run of index.js that goes into main and can read its manifest
Main ==
    /\ release = "1.1.12"
    /\ packageJson.readable
    /\ argv \cap {"--help", "-h", "--version", "-v"} = {}

\* the run of index.js is loading: main is at or before getDependencies
Loading == pc \in {"start", "getDependencies", "processDeps"}

\* the run of index.js is in autoFix behind the forming of the specifiers
Installing == pc \in {"install", "retry", "verify"} \/ depsToInstall # <<>>

\* the manifest entries in the order getDependencies goes through them
DeclaredEntries ==
    packageJson.dependencies \o packageJson.devDependencies
    \o packageJson.peerDependencies

\* C22, the positions: while index.js loads, no requirement has been
\* evaluated and nothing was installed; from the analysis on,
\* the catalog has an entry for every declared package and, for yarn, each
\* of them was fetched; the install is entered only behind an analysis that
\* is the analysis of the final catalog; a verification has a succeeded
\* install attempt before it; no run prints a suggested fix and installs.
C22_PipelineOrder ==
    /\ (release = "1.1.12" /\ Loading) =>
          /\ issues = NoIssues
          /\ depsToInstall = <<>>
          /\ \A i \in DOMAIN execaCalls : IsFetch(execaCalls[i])
    /\ (release = "1.1.12" /\ pc = "analyze") => issues = NoIssues
    /\ (Main /\ ~Loading) =>
          /\ Len(CatalogEntries) = Len(DeclaredEntries)
          /\ \A k \in DOMAIN CatalogEntries :
                CatalogEntries[k].name = DeclaredEntries[k][1]
          /\ packageManager = "yarn" => Len(Fetches) = Len(DeclaredEntries)
          /\ \A i \in DOMAIN execaCalls :
                IsFetch(execaCalls[i]) => i <= Len(DeclaredEntries)
    /\ (release = "1.1.12" /\ Installing) =>
          /\ Analysed /\ "--fix" \in argv
          /\ issues = Analyze(result)
          /\ <<"Suggested fix:">> \notin Range(stdout)
    /\ (release = "1.1.12" /\ <<"Suggested fix:">> \in Range(stdout)) =>
          /\ pc = "done" /\ ~Installing
          /\ \A i \in DOMAIN execaCalls : ~IsInstallCall(execaCalls[i])
    /\ (release \in {"1.1.12", "1.1.7"} /\ (pc = "verify" \/ verification.state # "none")) =>
          \E k \in DOMAIN InstallAttempts : InstallAttempts[k].ok

\* C22, the steps: once index.js has left getDependencies, no step changes
\* the catalog, and no step changes the result of the analysis once it is
\* returned.
C22_CatalogIsImmutable ==
    [][(release = "1.1.12" /\ pc \notin {"getDependencies", "processDeps"}) =>
          /\ result' = result
          /\ pc # "analyze" => issues' = issues]_vars

\* C22: each run goes through Load, WalkAll and Classify in this order and
\* then reports or installs: the positions and the steps together.
C22_LoadAnalyzeThenReportOrInstall == []C22_PipelineOrder /\ C22_CatalogIsImmutable

\* a fix run of index.js on a yarn project: two fetches were merged, the
\* analysis found a missing peer and the install was entered
C22_Witness ==
    /\ release = "1.1.12" /\ packageManager = "yarn"
    /\ Len(Fetches) = 2 /\ Len(CatalogEntries) = 2
    /\ issues.missingDeps # <<>>
    /\ pc = "retry"

\* the manager a recognised packageManager field names, "" without one
NamedByField ==
    IF packageJson.readable /\ cwd.packageManager # NULL
       /\ \E m \in Managers : SubSeq(cwd.packageManager, 1, 2) = <<m, "@">>
    THEN cwd.packageManager[1]
    ELSE ""

\* the manager of the first lock file present, yarn before npm before pnpm
\* before bun, "" without a lock file
NamedByLockFile ==
    IF File.yarnLock \in cwd.files THEN "yarn"
    ELSE IF File.packageLock \in cwd.files THEN "npm"
    ELSE IF File.pnpmLock \in cwd.files THEN "pnpm"
    ELSE IF File.bunLock \in cwd.files THEN "bun"
    ELSE ""

\* C23: detectPackageManager returns the manager of a recognised
\* packageManager field whatever lock files there are; without such a field
\* the manager of the first lock file present; with neither, npm; and
\* always one of npm, yarn, pnpm, bun.
C23_FieldThenLockFileThenNpm ==
    pc = "detected" =>
        /\ packageManager \in Managers
        /\ packageManager =
              IF NamedByField # "" THEN NamedByField
              ELSE IF NamedByLockFile # "" THEN NamedByLockFile
              ELSE "npm"

\* C24: the flat analysis reports what the recursive walk from every
\* declared package finds: each requirement the walk evaluates is one the
\* two loops come to, and the missing and conflict lists hold the entries
\* of the unmet requirements of the walk and no other.
C24_FlatAnalysisIsTheWalk ==
    Analysed =>
        LET walked == WalkAll(result)
        IN /\ walked \subseteq Requirements(result)
           /\ Range(issues.missingDeps) =
                 {At(q[2], q[3]) : q \in {r \in walked : IsMissing(result, r)}}
           /\ Range(issues.versionConflicts) =
                 {ConflictMessage(q[1], q[2], q[3], findInstalledVersion(result, q[2])) :
                     q \in {r \in walked : IsConflict(result, r)}}

\* the retry of autoFix has failed: its command failed (v1.1.7), or line 351
\* of index.js has thrown
RetryFailed ==
    \/ release = "1.1.7" /\ Len(InstallAttempts) = 2 /\ ~InstallAttempts[2].ok
    \/ release = "1.1.12" /\ depsToInstall # <<>> /\ pc \notin {"autoFix", "install", "retry"}

\* a command that takes packages away
IsRemoval(c) == c.args[1] \in {<<"uninstall">>, <<"remove">>, <<"rm">>, <<"prune">>}

\* the install commands that carry specifiers, in order
BatchCalls ==
    LET HasSpecifiers(c) == IsInstallCall(c) /\ Len(c.args) > 1
    IN SelectSeq(execaCalls, HasSpecifiers)

\* C25: once the retry of a batch has failed, the run is over with an error
\* line written and a non-zero exit code, nothing was verified and no
\* command followed; no run issues a command that removes packages; v1.1.0
\* attempts a batch only when every earlier batch succeeded.
C25_FailedRetryEndsTheRun ==
    /\ RetryFailed =>
          /\ pc = "done" /\ exitCode # 0
          /\ stderr # <<>> /\ stderr[Len(stderr)][1] = "Error: "
          /\ verification = NotVerified
          /\ release = "1.1.7" => execaCalls[Len(execaCalls)] = InstallAttempts[2]
    /\ \A i \in DOMAIN execaCalls : ~IsRemoval(execaCalls[i])
    /\ release = "1.1.0" =>
          \A i \in DOMAIN BatchCalls : \A j \in 1..(i - 1) : BatchCalls[j].ok

\* a fix run of v1.1.7 whose install failed twice
C25_Witness ==
    /\ release = "1.1.7"
    /\ Len(InstallAttempts) = 2
    /\ ~InstallAttempts[1].ok /\ ~InstallAttempts[2].ok
    /\ pc = "done" /\ exitCode = 1

\* the line of the output is an entry of a listing
IsBullet(line) == line # <<>> /\ line[1] = "- "

\* the index of the line the i-th line of the output is listed under: the
\* last line before it that is no entry, 0 if there is none
RECURSIVE HeadingOf(_)
HeadingOf(i) ==
    IF i <= 1 THEN 0
    ELSE IF IsBullet(stdout[i - 1]) THEN HeadingOf(i - 1)
    ELSE i - 1

\* the lines of the output that list dep under 'Missing peer dependencies'
ListedAsMissing(dep) ==
    {i \in DOMAIN stdout :
        /\ stdout[i] = <<"- ">> \o dep
        /\ HeadingOf(i) # 0
        /\ stdout[HeadingOf(i)] = <<"Missing peer dependencies:">>}

\* C26: in an analyze-mode run of index.js every missing peer is listed
\* under 'Missing peer dependencies' at most once, and no version conflict
\* is listed under that heading.
C26_MissingListedOnceAndConflictsApart ==
    (Analysed /\ "--fix" \notin argv /\ pc = "done") =>
        /\ \A i \in DOMAIN issues.missingDeps :
              Cardinality(ListedAsMissing(issues.missingDeps[i])) <= 1
        /\ \A i \in DOMAIN issues.versionConflicts :
              ListedAsMissing(issues.versionConflicts[i]) = {}

\* the requirements the analysis reported, as missing or as a conflict
Reported == {q \in Requirements(result) : IsMissing(result, q) \/ IsConflict(result, q)}

\* peer@"requiredRange" for every reported requirement
ReportedSpecifiers == {r[2] \o <<"@", "\"">> \o r[3] \o <<"\"">> : r \in Reported}

\* the install verb followed by reported specifiers only
WellFormedCommands ==
    {<<InstallCommand(packageManager)>> \o JoinArgs(args) :
        args \in UNION {[1..n -> ReportedSpecifiers] : n \in 1..Cardinality(Reported)}}

\* the command lines printed under 'Suggested fix:'
SuggestedCommands ==
    {stdout[i] : i \in {j \in DOMAIN stdout : j > 1 /\ stdout[j - 1] = <<"Suggested fix:">>}}

\* C27: every suggested fix command of an analyze-mode run is the install
\* verb of the detected manager followed only by specifiers peer@"range" of
\* reported peers: no conflict text, no empty or truncated package name.
C27_SuggestedCommandsAreWellFormed ==
    (Analysed /\ "--fix" \notin argv /\ pc = "done") =>
        SuggestedCommands \subseteq WellFormedCommands

\* the version the catalog holds for the package in the first of
\* dependencies, devDependencies, peerDependencies that declares it
FirstDeclaredVersion(name) ==
    LET first == CHOOSE k \in KindsDeclaring(name) : \A j \in KindsDeclaring(name) : k <= j
        entries == result[Kinds[first]]
    IN entries[CHOOSE i \in FindIn(entries, name) : TRUE].version

\* a declared peer is never reported as missing, whatever its version spec
C28_DeclaredPeerIsNotMissing ==
    Analysed =>
        \A req \in Requirements(result) :
            Declared(req[2]) => ~InMissing(req[2], req[3])

\* every conflict reported for a declared peer names the version of the
\* first kind that declares it
C28_VersionOfFirstKind ==
    Analysed =>
        \A req \in Requirements(result) :
            Declared(req[2]) =>
                ConflictsFor(req[1], req[2], req[3])
                \subseteq {ConflictMessage(req[1], req[2], req[3],
                                           FirstDeclaredVersion(req[2]))}

\* C28: a peer declared in any of the three kinds is never reported as
\* missing, also when its version spec reduces to the empty string, and the
\* version used for it is the one of dependencies, then devDependencies,
\* then peerDependencies.
C28_DeclaredPeerIsComparedByFirstKind ==
    C28_DeclaredPeerIsNotMissing /\ C28_VersionOfFirstKind

\* C29: without --fix, index.js and v1.1.7 issue no command that installs or
\* modifies packages, also when the node_modules directory does not exist.
C29_AnalyzeModeInstallsNothing ==
    (release \in {"1.1.12", "1.1.7"} /\ "--fix" \notin argv) =>
        \A i \in DOMAIN execaCalls :
            ~IsInstallCall(execaCalls[i]) /\ ~IsRemoval(execaCalls[i])

\* the peers the missing list names
MissingPeers == {req[2] : req \in {q \in Requirements(result) : InMissing(q[2], q[3])}}

\* the peers the conflict list names
ConflictPeers ==
    {req[2] : req \in {q \in Requirements(result) : ConflictsFor(q[1], q[2], q[3]) # {}}}

\* C30: in a result of analyzePeerDependencies no peer name is both in the
\* missing list and the peer of a conflict, and hasIssues is true exactly
\* when one of the two lists is non-empty.
C30_MissingAndConflictsDisjoint ==
    Analysed =>
        /\ MissingPeers \cap ConflictPeers = {}
        /\ issues.hasIssues <=>
              (Len(issues.missingDeps) > 0 \/ Len(issues.versionConflicts) > 0)

\* an analysis that found a missing peer and a conflict on another peer
C30_Witness ==
    /\ Analysed
    /\ MissingPeers # {} /\ ConflictPeers # {}
    /\ issues.hasIssues

====
